---- MODULE Spec2Model ----
(***************************************************************************)
(* AP FRQ grading router (src/ap-env-plus-router.py): the classification   *)
(* parse chain, course-name normalisation, strategy dispatch, the retried  *)
(* upstream calls, the score extraction and the renderers of grade_frq;    *)
(* and the request validation and upstream calls of score_answer of the    *)
(* scoring service (src/ap-frq-grader.py).                                 *)
(*                                                                         *)
(* Strings are sequences of atoms.  An atom is one character ("A", "p",    *)
(* " ") or a whole word that holds no whitespace at either end and does    *)
(* not start with "ap " ("Biology", "language"): strip(), lower(),         *)
(* startswith("ap ") and [3:] act on single characters at the two ends of  *)
(* a string only, so a word can stand for its characters.                  *)
(***************************************************************************)
EXTENDS Integers, Sequences, FiniteSets, TLC

VARIABLES
    \* SpecNorm: a label, one of its relatives, and what each normalizes to
    n_pc, n_x, n_y, n_nx, n_ny,
    \* SpecParse: the classification generator's text, the caller's
    \* course_title and what classify_frq_course makes of them
    p_pc, p_text, p_chunks, p_title, p_res,
    \* SpecScore: a stage-1 text, a stage-2 text and the score extracted
    s_pc, s_scoring, s_feedback, s_score,
    \* Spec: one request to grade_frq.  form is the multipart form sent, pc the
    \* point the coroutine is at, fn and attempt the retried call it is in and
    \* that call's loop variable, calls the upstream calls made so far, the
    \* others grade_frq's parameters and locals
    form, pc, course_title, fn, attempt, calls, classified_course,
    normalized_course, strategy, scoring_response, feedback_response,
    openai_prompt, api_response, response, error,
    \* SpecServices: one request to score_answer of src/ap-frq-grader.py.
    \* a_request is the JSON body sent, a_pc the point the handler is at,
    \* a_attempt the loop variable of call_openai_api, a_calls the upstream
    \* calls made so far, a_note whether the rubric got the calculation note
    a_request, a_pc, a_attempt, a_calls, a_note, a_response, a_error,
    \* SpecLoop: the requests to grade_frq in flight on one event loop.
    \* l_req[r] is where request r is, l_thread the request whose code the
    \* loop's thread is running (0 when the loop is free)
    l_req, l_thread,
    \* SpecRender: one call of a renderer.  v_fn is the renderer, v_input its
    \* argument and v_html the view it returned
    v_pc, v_fn, v_input, v_html

normVars == <<n_pc, n_x, n_y, n_nx, n_ny>>

parseVars == <<p_pc, p_text, p_chunks, p_title, p_res>>

scoreVars == <<s_pc, s_scoring, s_feedback, s_score>>

gradeVars ==
    <<form, pc, course_title, fn, attempt, calls, classified_course, normalized_course,
      strategy, scoring_response, feedback_response, openai_prompt, api_response,
      response, error>>

answerVars == <<a_request, a_pc, a_attempt, a_calls, a_note, a_response, a_error>>

loopVars == <<l_req, l_thread>>

viewVars == <<v_pc, v_fn, v_input, v_html>>

vars == <<normVars, parseVars, scoreVars, gradeVars, answerVars, loopVars, viewVars>>

----------------------------------------------------------------------------
(* Bounds of the model *)

\* longest label (in atoms) whose normalisation is enumerated
MaxLabelLen == 3

\* longest classification text, in chunks (see Chunks)
MaxChunks == 4

\* longest stage-1 and stage-2 texts (in lexemes) whose score is extracted
MaxScoringLen == 3
MaxFeedbackLen == 2

\* requests to grade_frq in flight at once
NumRequests == 2

\* longest feedback text handed to the environmental science renderer
MaxRenderLen == 4

\* longest feedback list handed to the general renderer
MaxPoints == 2

\* largest score an upstream scoring endpoint reports in one field
MaxPts == 3

----------------------------------------------------------------------------
(* Constants of the program *)

\* for attempt in range(3)
MaxAttempts == 3

\* if attempt < 2: sleep and go round again
LastAttempt == 2

\* asyncio.sleep(4), time.sleep(4)
BackoffSeconds == 4

\* total_possible_points of the language and literature strategies
LangLitPossible == 6

----------------------------------------------------------------------------
(* Python str operations on atom sequences *)

\* str.isspace() of one atom
IsSpace(a) == a = " "

\* str.lower() of one atom
LowerAtom(a) ==
    CASE a = "A" -> "a"
      [] a = "P" -> "p"
      [] a = "Language" -> "language"
      [] a = "Literature" -> "literature"
      [] a = "Environmental" -> "environmental"
      [] a = "Science" -> "science"
      [] a = "Biology" -> "biology"
      [] a = "Chemistry" -> "chemistry"
      [] a = "Physics" -> "physics"
      [] a = "Microeconomics" -> "microeconomics"
      [] a = "United States History" -> "united states history"
      [] a = "World History" -> "world history"
      [] a = "Human Geography" -> "human geography"
      [] a = "United States Government" -> "united states government"
      [] a = "Basket Weaving" -> "basket weaving"
      [] a = "FRQ" -> "frq"
      [] a = "Honors" -> "honors"
      [] a = "English" -> "english"
      [] OTHER -> a

\* str.lower()
Lower(s) == [i \in 1..Len(s) |-> LowerAtom(s[i])]

RECURSIVE LStrip(_)
\* str.lstrip()
LStrip(s) ==
    IF s # <<>> /\ IsSpace(Head(s)) THEN LStrip(Tail(s)) ELSE s

RECURSIVE RStrip(_)
\* str.rstrip()
RStrip(s) ==
    IF s # <<>> /\ IsSpace(s[Len(s)]) THEN RStrip(SubSeq(s, 1, Len(s) - 1)) ELSE s

\* str.strip()
Strip(s) == RStrip(LStrip(s))

\* str.startswith(prefix)
StartsWith(s, prefix) ==
    Len(s) >= Len(prefix) /\ SubSeq(s, 1, Len(prefix)) = prefix

\* the literal "ap " of normalize_course_name
ApPrefix == <<"a", "p", " ">>

\* a plausible slip: removes the prefix but never strips the label
normalize_unstripped(course_name) ==
    LET normalized == Lower(course_name)
    IN  IF StartsWith(normalized, ApPrefix)
        THEN SubSeq(normalized, 4, Len(normalized))
        ELSE normalized

\* a plausible slip: lower-cases but never removes the prefix
normalize_no_prefix(course_name) == Lower(Strip(course_name))

\* normalize_course_name(course_name)
normalize_course_name(course_name) ==
    LET normalized == Lower(Strip(course_name))
    IN  IF StartsWith(normalized, ApPrefix)
        THEN SubSeq(normalized, 4, Len(normalized))
        ELSE normalized

\* the string literals grade_frq compares the normalized course with
EnvScienceName == <<"environmental", " ", "science">>
LanguageName == <<"language">>
LiteratureName == <<"literature">>

\* a plausible slip: "environmental science" looked for inside the value
route_by_containment(normalized) ==
    IF \E i \in 0..(Len(normalized) - Len(EnvScienceName)) :
          SubSeq(normalized, i + 1, i + Len(EnvScienceName)) = EnvScienceName
    THEN "two_stage"
    ELSE IF normalized = LanguageName THEN "language"
    ELSE IF normalized = LiteratureName THEN "literature"
    ELSE "general"

\* a plausible slip: the language and literature branches swapped
route_swapped(normalized) ==
    IF normalized = EnvScienceName THEN "two_stage"
    ELSE IF normalized = LanguageName THEN "literature"
    ELSE IF normalized = LiteratureName THEN "language"
    ELSE "general"

\* the if / elif / else chain of grade_frq: which strategy a normalized course selects
route(normalized) ==
    IF normalized = EnvScienceName THEN "two_stage"
    ELSE IF normalized = LanguageName THEN "language"
    ELSE IF normalized = LiteratureName THEN "literature"
    ELSE "general"

----------------------------------------------------------------------------
(* Texts of the classification generator, as sequences of JSON lexemes.    *)
(* A lexeme is [t, s]: t is its kind ("lb" {, "rb" }, "colon", "comma",    *)
(* "str" a string literal, "num" a number literal, "word" prose that is    *)
(* no JSON), s the content of a string literal.  Whitespace between        *)
(* lexemes is insignificant to json.loads and is matched by \s* in the     *)
(* patterns, so it is left out.                                            *)

Tok(t) == [t |-> t, s |-> <<>>]
StrTok(s) == [t |-> "str", s |-> s]

\* the field name classify_frq_course looks for
CourseKey == <<"course_of_the_frq">>

\* what a failed parse returns
ParseFail ==
    [ok |-> FALSE, next |-> 0, kind |-> "none", s |-> <<>>,
     has |-> FALSE, fkind |-> "none", fs |-> <<>>]

RECURSIVE ParseValue(_, _), ParseMembers(_, _, _)
\* json.loads' value parser at lexeme i: ok, the lexeme after the value, the
\* value's kind (and content when a string) and, for an object, whether it has
\* the key course_of_the_frq and that member's kind and content
ParseValue(toks, i) ==
    IF i > Len(toks) THEN ParseFail
    ELSE IF toks[i].t = "str"
    THEN [ParseFail EXCEPT !.ok = TRUE, !.next = i + 1, !.kind = "str", !.s = toks[i].s]
    ELSE IF toks[i].t = "num"
    THEN [ParseFail EXCEPT !.ok = TRUE, !.next = i + 1, !.kind = "num"]
    ELSE IF toks[i].t = "lb"
    THEN IF i + 1 <= Len(toks) /\ toks[i + 1].t = "rb"
         THEN [ParseFail EXCEPT !.ok = TRUE, !.next = i + 2, !.kind = "obj"]
         ELSE ParseMembers(toks, i + 1, [ParseFail EXCEPT !.kind = "obj"])
    ELSE ParseFail

\* the members of an object from the key at lexeme i on; a repeated key keeps
\* its last value, as a Python dict does
ParseMembers(toks, i, acc) ==
    IF i + 1 > Len(toks) \/ toks[i].t # "str" \/ toks[i + 1].t # "colon"
    THEN ParseFail
    ELSE LET v == ParseValue(toks, i + 2)
             got == IF toks[i].s = CourseKey
                    THEN [acc EXCEPT !.has = TRUE, !.fkind = v.kind, !.fs = v.s]
                    ELSE acc
         IN  IF ~v.ok \/ v.next > Len(toks) THEN ParseFail
             ELSE IF toks[v.next].t = "rb"
             THEN [got EXCEPT !.ok = TRUE, !.next = v.next + 1]
             ELSE IF toks[v.next].t = "comma"
             THEN ParseMembers(toks, v.next + 1, got)
             ELSE ParseFail

\* json.loads(text): the whole text must be one value (else JSONDecodeError)
json_loads(text) ==
    LET v == ParseValue(text, 1)
    IN  IF v.ok /\ v.next = Len(text) + 1 THEN v ELSE ParseFail

\* re.search(r'({[\s\S]*})', text): greedy, from the first { to the last }
BraceIdx(text, t) == {i \in 1..Len(text) : text[i].t = t}
Min(S) == CHOOSE x \in S : \A y \in S : x <= y
Max(S) == CHOOSE x \in S : \A y \in S : x >= y
HasSpan(text) ==
    /\ BraceIdx(text, "lb") # {}
    /\ BraceIdx(text, "rb") # {}
    /\ Min(BraceIdx(text, "lb")) < Max(BraceIdx(text, "rb"))
Span(text) == SubSeq(text, Min(BraceIdx(text, "lb")), Max(BraceIdx(text, "rb")))

\* re.search(r'"course_of_the_frq"\s*:\s*"([^"]+)"', text): the places where
\* the quoted key, a colon and a non-empty string literal follow one another
KeyMatches(text) ==
    {i \in 1..(Len(text) - 2) :
        /\ text[i] = StrTok(CourseKey)
        /\ text[i + 1].t = "colon"
        /\ text[i + 2].t = "str"
        /\ text[i + 2].s # <<>>}

\* what classify_frq_course does with a value: a return of it, or the exception
Returned(kind, s, step) == [out |-> "return", kind |-> kind, s |-> s, step |-> step]
Raised(step) == [out |-> "raise", kind |-> "AttributeError", s |-> <<>>, step |-> step]

\* json_obj.get("course_of_the_frq", "") on a parsed value: the member, ""
\* when the object has none, AttributeError when the value is no object
GetCourse(v, step) ==
    IF v.kind # "obj" THEN Raised(step)
    ELSE IF v.has THEN Returned(v.fkind, v.fs, step)
    ELSE Returned("str", <<>>, step)

\* a plausible slip: the textual pattern tried before the embedded JSON object
classify_textual_first(response_text, title) ==
    LET whole == json_loads(response_text)
    IN  IF whole.ok THEN GetCourse(whole, 1)
        ELSE IF KeyMatches(response_text) # {}
        THEN Returned("str", response_text[Min(KeyMatches(response_text)) + 2].s, 3)
        ELSE IF HasSpan(response_text) /\ json_loads(Span(response_text)).ok
        THEN GetCourse(json_loads(Span(response_text)), 2)
        ELSE Returned("str", title, 4)

\* a plausible slip: the empty string returned when every step has failed
classify_no_fallback(response_text, title) ==
    LET whole == json_loads(response_text)
    IN  IF whole.ok THEN GetCourse(whole, 1)
        ELSE IF HasSpan(response_text) /\ json_loads(Span(response_text)).ok
        THEN GetCourse(json_loads(Span(response_text)), 2)
        ELSE IF KeyMatches(response_text) # {}
        THEN Returned("str", response_text[Min(KeyMatches(response_text)) + 2].s, 3)
        ELSE Returned("str", <<>>, 4)

\* the parse chain of classify_frq_course on the generator's text
classify_parse(response_text, title) ==
    LET whole == json_loads(response_text)
    IN  IF whole.ok THEN GetCourse(whole, 1)
        ELSE IF HasSpan(response_text) /\ json_loads(Span(response_text)).ok
        THEN GetCourse(json_loads(Span(response_text)), 2)
        ELSE IF KeyMatches(response_text) # {}
        THEN Returned("str", response_text[Min(KeyMatches(response_text)) + 2].s, 3)
        ELSE Returned("str", title, 4)

----------------------------------------------------------------------------
(* Texts of the two Environmental Science generators, as sequences of the  *)
(* lexemes the score patterns look for.  A lexeme is [t, e, p]: "final" is *)
(* 'Final Score: e/p', "total" is 'Total Score: e/p', "tag" is             *)
(* '<score_estimate>', "word" any other text.                              *)

Word == [t |-> "word", e |-> 0, p |-> 0]
ScoreTag == [t |-> "tag", e |-> 0, p |-> 0]
FinalScore(e, p) == [t |-> "final", e |-> e, p |-> p]
TotalScore(e, p) == [t |-> "total", e |-> e, p |-> p]

\* re.search(r'Final Score: (\d+)/(\d+)', text): where the pattern matches
FinalMatches(text) == {i \in 1..Len(text) : text[i].t = "final"}

\* re.search(r'<score_estimate>[\s\S]*?Total Score: (\d+)/(\d+)', text): the
\* match starts at the first tag that a 'Total Score' follows and, being
\* lazy, ends at the first 'Total Score' after it
TotalMatches(text) ==
    {j \in 1..Len(text) :
        /\ text[j].t = "total"
        /\ \E i \in 1..(j - 1) : text[i].t = "tag"}

ScorePair(e, p) == [earned |-> e, possible |-> p]

\* a plausible slip: the stage-1 estimate preferred to the stage-2 final score
extract_score_stage1_first(scoring, feedback) ==
    IF TotalMatches(scoring) # {}
    THEN LET m == scoring[Min(TotalMatches(scoring))]
         IN  ScorePair(m.e, m.p)
    ELSE IF FinalMatches(feedback) # {}
    THEN LET m == feedback[Min(FinalMatches(feedback))]
         IN  ScorePair(m.e, m.p)
    ELSE ScorePair(0, 0)

\* a plausible slip: no sentinel, the fallback pair is (0, 6)
extract_score_no_sentinel(scoring, feedback) ==
    IF FinalMatches(feedback) # {}
    THEN LET m == feedback[Min(FinalMatches(feedback))]
         IN  ScorePair(m.e, m.p)
    ELSE IF TotalMatches(scoring) # {}
    THEN LET m == scoring[Min(TotalMatches(scoring))]
         IN  ScorePair(m.e, m.p)
    ELSE ScorePair(0, 6)

\* extract_score_from_env_science(scoring_response, feedback_response)
extract_score_from_env_science(scoring, feedback) ==
    IF FinalMatches(feedback) # {}
    THEN LET m == feedback[Min(FinalMatches(feedback))]
         IN  ScorePair(m.e, m.p)
    ELSE IF TotalMatches(scoring) # {}
    THEN LET m == scoring[Min(TotalMatches(scoring))]
         IN  ScorePair(m.e, m.p)
    ELSE ScorePair(0, 0)

----------------------------------------------------------------------------
(* The retried upstream calls: call_claude_api and call_openai_api *)

\* the record kept of one upstream call: the function, the requests it has
\* made, the backoff sleeps it has begun and the seconds they take, how it
\* ended, and the HTTP status and text of its latest response (0 and ""
\* when the request raised)
NewCall(f) ==
    [fn |-> f, attempts |-> 0, sleeps |-> 0, slept |-> 0, outcome |-> "running",
     status |-> 0, text |-> ""]

\* one more request made by the latest call, answered with status and text
CallAttempt(cs, status, text) ==
    [cs EXCEPT ![Len(cs)].attempts = @ + 1,
               ![Len(cs)].status = status,
               ![Len(cs)].text = text]

\* asyncio.sleep(4) / time.sleep(4) begun by the latest call
CallSleeps(cs) ==
    [cs EXCEPT ![Len(cs)].sleeps = @ + 1, ![Len(cs)].slept = @ + BackoffSeconds]

\* the latest call ends: "returned", "raised", or "returned_none" when the
\* for loop runs out without a return or a raise
CallEnds(cs, how) == [cs EXCEPT ![Len(cs)].outcome = how]

\* a plausible slip: the backoff also taken after the last attempt
CanRetryOnceMore(a) == a < LastAttempt + 1

\* if attempt < 2
CanRetry(a) == a < LastAttempt

\* the body of a status-200 answer of the Claude API: "content" has a
\* non-empty content list whose first item has the text, "text" has no such
\* list but a text member, "empty" has neither, "bad" is no JSON or has a
\* first content item without text
ClaudeBody(shape, text) == [shape |-> shape, text |-> text]

\* what call_claude_api makes of a status-200 body: the text it returns, or
\* the exception raised inside the try block
claude_result(body) ==
    IF body.shape \in {"content", "text"} THEN [ok |-> TRUE, text |-> body.text]
    ELSE IF body.shape = "empty" THEN [ok |-> TRUE, text |-> <<>>]
    ELSE [ok |-> FALSE, text |-> <<>>]

\* an HTTPException(status_code, detail): msg is the literal the detail
\* starts with, upstream_status and upstream_text what follows it (0 and ""
\* when nothing does)
HTTPError(status, msg, upstream_status, upstream_text) ==
    [status |-> status, msg |-> msg,
     upstream_status |-> upstream_status, upstream_text |-> upstream_text]

NoError == HTTPError(0, "", 0, "")

\* a failed request: a non-200 answer, or an exception (status 0 when the
\* request itself raised, 200 when the body of a 200 answer did)
Failure(kind, status, text) == [kind |-> kind, status |-> status, text |-> text]

\* the exception call_claude_api ends with on its last attempt.  A non-200
\* answer raises HTTPException(response.status_code, ...) inside the try
\* block, where "except Exception" catches it and raises a new one with
\* status 500 and str(e) in the detail; str() of an HTTPException is
\* "<status>: <detail>" or empty, depending on the installed Starlette
claude_fatal(f) ==
    IF f.kind = "non200"
    THEN {HTTPError(500, "Error calling Claude API", f.status, f.text),
          HTTPError(500, "Error calling Claude API", 0, "")}
    ELSE {HTTPError(500, "Error calling Claude API", 0, "")}

\* the exception call_openai_api ends with on its last attempt
openai_fatal == HTTPError(500, "Error calling OpenAI API", 0, "")

\* grade_frq's "except Exception": any other exception becomes a 500
internal_error == HTTPError(500, "Internal server error", 0, "")

----------------------------------------------------------------------------
(* The two-stage strategy *)

\* the template text before and after {evaluation_data} in the stage-2 prompt
PromptHead == [t |-> "template", e |-> 0, p |-> 0]
PromptTail == [t |-> "template", e |-> 1, p |-> 0]

\* a plausible slip: the evaluation data left out of the prompt
create_openai_prompt_blank(evaluation_data) == <<PromptHead, PromptTail>>

\* create_openai_prompt(evaluation_data)
create_openai_prompt(evaluation_data) ==
    <<PromptHead>> \o evaluation_data \o <<PromptTail>>

\* a number a view shows, or the "?" shown in its place
Shown(n) == [known |-> TRUE, n |-> n]
Unknown == [known |-> FALSE, n |-> 0]

\* lexemes of the stage-2 template: 'AP Score Estimate: n', the section
\* markers and the closing line.  The marker of "How to Improve" is the
\* warning sign followed by the words; the sign may also stand alone
ApEstimate(n) == [t |-> "ap_estimate", e |-> n, p |-> 0]
DidWellMarker == [t |-> "did_well", e |-> 0, p |-> 0]
WarningSign == [t |-> "warning", e |-> 0, p |-> 0]
HowToImprove == [t |-> "how_to_improve", e |-> 0, p |-> 0]
NextStepsMarker == [t |-> "next_steps", e |-> 0, p |-> 0]
Rocket == [t |-> "rocket", e |-> 0, p |-> 0]

\* where r'AP Score Estimate: (\d+)' matches
ApEstimateMatches(text) == {i \in 1..Len(text) : text[i].t = "ap_estimate"}

\* where the three section markers match
DidWellMatches(text) == {i \in 1..Len(text) : text[i] = DidWellMarker}
ImproveMatches(text) ==
    {i \in 1..(Len(text) - 1) : text[i] = WarningSign /\ text[i + 1] = HowToImprove}
NextStepsMatches(text) == {i \in 1..Len(text) : text[i] = NextStepsMarker}

\* re.search(r'<marker>.*?(?=<stop>|$)', text, re.DOTALL).group(0): from the
\* leftmost marker (of marker_len lexemes) up to the first stop lexeme
\* after it, or to the end of the text; "" when the marker is absent
section(text, starts, marker_len, stop) ==
    IF starts = {} THEN <<>>
    ELSE LET i == Min(starts)
             ends == {k \in (i + marker_len)..Len(text) : text[k] = stop}
             j == IF ends = {} THEN Len(text) + 1 ELSE Min(ends)
         IN  SubSeq(text, i, j - 1)

\* a number the view shows from the first match of a pattern, or "?"
shown_or_unknown(text, matches, group) ==
    IF matches = {} THEN Unknown
    ELSE IF group = 1 THEN Shown(text[Min(matches)].e)
    ELSE Shown(text[Min(matches)].p)

\* create_environmental_science_html: the score, the AP estimate and the
\* three sections the view shows
create_environmental_science_html(scoring, feedback) ==
    [view |-> "environmental_science",
     earned_points |-> shown_or_unknown(feedback, FinalMatches(feedback), 1),
     total_points |-> shown_or_unknown(feedback, FinalMatches(feedback), 2),
     ap_score |-> shown_or_unknown(feedback, ApEstimateMatches(feedback), 1),
     did_well_section |->
         section(feedback, DidWellMatches(feedback), 1, WarningSign),
     improve_section |->
         section(feedback, ImproveMatches(feedback), 2, Rocket),
     next_steps_section |->
         section(feedback, NextStepsMatches(feedback), 1, Rocket)]

----------------------------------------------------------------------------
(* The language, literature and general strategies *)

\* a member of a JSON object: absent, null, or a number
Absent == [k |-> "absent", n |-> 0]
Null == [k |-> "null", n |-> 0]
Num(n) == [k |-> "num", n |-> n]

\* a row of the language / literature answer: absent, null, or an object
\* with or without a score
Row(k, score) == [k |-> k, score |-> score]

\* the outcome of an expression: a number, or an exception
Value(n) == [ok |-> TRUE, n |-> n]
Raises == [ok |-> FALSE, n |-> 0]

\* api_response.get(row, {}).get('score', 0)
row_score(row) ==
    IF row.k = "absent" THEN Value(0)
    ELSE IF row.k = "null" THEN Raises
    ELSE IF row.score.k = "absent" THEN Value(0)
    ELSE Value(row.score.n)

\* float(x) of a member that is present
to_float(x) == IF x.k = "num" THEN Value(x.n) ELSE Raises

\* a plausible slip: the row scores summed even when original_total_score is there
lang_lit_rows_only(body) ==
    LET a == row_score(body.rowA)
        b == row_score(body.rowB)
        c == row_score(body.rowC)
    IN  IF a.ok /\ b.ok /\ c.ok THEN Value(a.n + b.n + c.n) ELSE Raises

\* total_earned_points of the language and literature branches of grade_frq
lang_lit_earned(body) ==
    IF body.original_total_score.k # "absent"
    THEN to_float(body.original_total_score)
    ELSE LET a == row_score(body.rowA)
             b == row_score(body.rowB)
             c == row_score(body.rowC)
         IN  IF a.ok /\ b.ok /\ c.ok THEN Value(a.n + b.n + c.n) ELSE Raises

\* json.dumps(api_response), and json.loads of it in the renderers
json_dumps(obj) == [ok |-> TRUE, json |-> obj]
json_parse(str) == str.json

\* a string json.loads raises on, or whose value is no JSON object
NotAnObject == [ok |-> FALSE, json |-> <<>>]

\* the fact_check member of the language / literature answer: absent, null,
\* a string, or an object with or without a score and a reasoning
FactCheck(k, score, reasoning) == [k |-> k, score |-> score, reasoning |-> reasoning]

\* a plausible slip: the fact check never taken as failed
fact_check_never_failed(fact_check) == [ok |-> TRUE, failed |-> FALSE]

\* fact_check is not None and fact_check.get('score', 1) == 0
fact_check_failed(fact_check) ==
    IF fact_check.k \in {"absent", "null"} THEN [ok |-> TRUE, failed |-> FALSE]
    ELSE IF fact_check.k # "obj" THEN [ok |-> FALSE, failed |-> FALSE]
    ELSE [ok |-> TRUE, failed |-> fact_check.score = Num(0)]

\* the "Fact Check Failed" block of the view, or the empty string in its place
FactCheckBlock(reasoning, penalized, unpenalized) ==
    [shown |-> TRUE, reasoning |-> reasoning,
     penalized_total_score |-> penalized, total_score |-> unpenalized]
NoFactCheckBlock ==
    [shown |-> FALSE, reasoning |-> <<>>,
     penalized_total_score |-> 0, total_score |-> 0]

\* create_language_literature_html: the total and the fact-check block the
\* view shows, or the error view of its except branch
LanguageLiteratureErrorView ==
    [view |-> "error", total_score |-> Unknown, fact_check_html |-> NoFactCheckBlock]

create_language_literature_html(api_response_json) ==
    IF ~api_response_json.ok THEN LanguageLiteratureErrorView
    ELSE
    LET r == json_parse(api_response_json)
        a == row_score(r.rowA)
        b == row_score(r.rowB)
        c == row_score(r.rowC)
        f == fact_check_failed(r.fact_check)
    IN  IF a.ok /\ b.ok /\ c.ok /\ f.ok
        THEN [view |-> "language_literature",
              total_score |-> Shown(a.n + b.n + c.n),
              fact_check_html |->
                  IF f.failed
                  THEN FactCheckBlock(r.fact_check.reasoning,
                                      a.n + 1 + c.n, a.n + b.n + c.n)
                  ELSE NoFactCheckBlock]
        ELSE LanguageLiteratureErrorView

\* api_response.get(name, 0) followed by float()
get_float(x) == IF x.k = "absent" THEN Value(0) ELSE to_float(x)

\* api_response.get(name, 0)
get_or_zero(x) == IF x.k = "absent" THEN Num(0) ELSE x

\* a percentage the general view shows: the upstream member as it is, or a
\* computed number, held in tenths of a percent
UpstreamPercentage(member) == [upstream |-> TRUE, member |-> member, tenths |-> 0]
ComputedPercentage(tenths) == [upstream |-> FALSE, member |-> Absent, tenths |-> tenths]

\* a plausible slip: the percentage cut to one decimal instead of rounded
percentage_truncated(awarded_points, total_points) ==
    IF total_points > 0 THEN (awarded_points * 1000) \div total_points ELSE 0

\* round((awarded_points / total_points * 100), 1) if total_points > 0 else 0,
\* in tenths of a percent
percentage(awarded_points, total_points) ==
    IF total_points > 0
    THEN (2 * awarded_points * 1000 + total_points) \div (2 * total_points)
    ELSE 0

\* a member that holds text: absent, null, a string (v holds the one
\* string) or a list of strings (v holds the elements)
NoText == [k |-> "absent", v |-> <<>>]
NullText == [k |-> "null", v |-> <<>>]
StrText(s) == [k |-> "str", v |-> <<s>>]
ListText(l) == [k |-> "list", v |-> l]

\* bool(x) of a text member: a string other than '', a list other than []
truthy(x) ==
    \/ x.k = "str" /\ x.v # <<"">>
    \/ x.k = "list" /\ x.v # <<>>

\* api_response.get(key, '') as it is shown
get_or_empty(x) == IF x.k = "absent" THEN StrText("") ELSE x

\* rationale = get('rationale', ''), or get('rationale_for_the_score', '')
\* when that is falsy
rationale_of(body) ==
    IF truthy(get_or_empty(body.rationale))
    THEN body.rationale
    ELSE get_or_empty(body.rationale_for_the_score)

\* the isinstance chain: a list as it is, a string as a one-element list,
\* anything else as no points
points_of(feedback) ==
    IF feedback.k = "list" THEN feedback.v
    ELSE IF feedback.k = "str" THEN feedback.v
    ELSE <<>>

\* (mutant of feedback_points_of: a string is no feedback)
feedback_points_lists_only(body) ==
    LET f == IF body.feedback.k # "absent" THEN body.feedback
             ELSE body.feedback_to_the_student
    IN  IF f.k = "list" THEN f.v ELSE <<>>

\* feedback_points: 'feedback' when the key is present, otherwise
\* 'feedback_to_the_student' when that key is present
feedback_points_of(body) ==
    IF body.feedback.k # "absent"
    THEN points_of(body.feedback)
    ELSE IF body.feedback_to_the_student.k # "absent"
    THEN points_of(body.feedback_to_the_student)
    ELSE <<>>

DefaultFeedbackPoint == "No specific feedback points provided."

\* feedback_html: one <li> per point in order, or the default <li>
feedback_html_of(feedback_points) ==
    IF feedback_points = <<>> THEN <<DefaultFeedbackPoint>> ELSE feedback_points

GeneralErrorView ==
    [view |-> "error", total_points |-> Absent, awarded_points |-> Absent,
     score_percentage |-> ComputedPercentage(0),
     rationale |-> StrText(""), feedback_html |-> <<>>]

\* create_general_course_html: the points and the percentage the view
\* shows, or the error view of its except branch (None > 0 and None / n
\* raise TypeError)
create_general_course_html(api_response_json) ==
    IF ~api_response_json.ok THEN GeneralErrorView
    ELSE
    LET r == json_parse(api_response_json)
        total_points == get_or_zero(r.total_points)
        awarded_points == get_or_zero(r.awarded_points)
        shown(p) == [view |-> "general", total_points |-> total_points,
                     awarded_points |-> awarded_points, score_percentage |-> p,
                     rationale |-> rationale_of(r),
                     feedback_html |-> feedback_html_of(feedback_points_of(r))]
    IN  IF r.score_percentage.k # "absent"
        THEN shown(UpstreamPercentage(r.score_percentage))
        ELSE IF total_points.k # "num" THEN GeneralErrorView
        ELSE IF total_points.n <= 0 THEN shown(ComputedPercentage(0))
        ELSE IF awarded_points.k # "num" THEN GeneralErrorView
        ELSE shown(ComputedPercentage(percentage(awarded_points.n, total_points.n)))

\* GradingResponse(...)
GradingResponse(scoring, feedback, html, possible, earned) ==
    [scoring_response |-> scoring, feedback_response |-> feedback,
     html_for_app |-> html, total_possible_points |-> possible,
     total_earned_points |-> earned]

NoResponse == GradingResponse(<<>>, <<>>, <<>>, 0, 0)

----------------------------------------------------------------------------
(* Specification SpecNorm: normalize_course_name on pairs of labels *)

\* the characters and words labels are built from
NormAtoms == {"A", "a", "P", "p", " ", "Language", "language"}

\* all strings of at most n atoms of S
StringsUpTo(S, n) == UNION {[1..k -> S] : k \in 0..n}

\* the atoms that differ from a in letter case at most
SameLetters(a) == {b \in NormAtoms : LowerAtom(b) = LowerAtom(a)}

RECURSIVE CaseVariants(_)
\* the strings that differ from s in letter case at most
CaseVariants(s) ==
    IF s = <<>> THEN {<<>>}
    ELSE {<<a>> \o r : a \in SameLetters(Head(s)), r \in CaseVariants(Tail(s))}

\* s with one leading "AP " prefix
WithApPrefix(s) == <<"A", "P", " ">> \o s

\* the labels that differ from s in letter case and/or one leading "AP " prefix
Relatives(s) == CaseVariants(s) \cup CaseVariants(WithApPrefix(s))

ParseIdle ==
    /\ p_pc = "idle"
    /\ p_text = <<>>
    /\ p_chunks = 0
    /\ p_title = <<>>
    /\ p_res = Returned("none", <<>>, 0)

\* a field of a request: not sent, or sent with a text (which may be empty)
Missing == [given |-> FALSE, text |-> <<>>]
Given(text) == [given |-> TRUE, text |-> text]

NoForm ==
    [course_title |-> Missing, question |-> Missing, student_answer |-> Missing,
     scoring_rubric |-> Missing]

GradeIdle ==
    /\ form = NoForm
    /\ pc = "idle"
    /\ course_title = <<>>
    /\ fn = "none"
    /\ attempt = 0
    /\ calls = <<>>
    /\ classified_course = Returned("none", <<>>, 0)
    /\ normalized_course = <<>>
    /\ strategy = "none"
    /\ scoring_response = <<>>
    /\ feedback_response = <<>>
    /\ openai_prompt = <<>>
    /\ api_response = <<>>
    /\ response = NoResponse
    /\ error = NoError

\* ScoringResponse(...) of score_answer; valid tells a response was built
ScoringResponse(valid) == [valid |-> valid]

NoScoringRequest ==
    [question |-> Missing, student_answer |-> Missing, scoring_rubric |-> Missing]

AnswerIdle ==
    /\ a_request = NoScoringRequest
    /\ a_pc = "idle"
    /\ a_attempt = 0
    /\ a_calls = <<>>
    /\ a_note = FALSE
    /\ a_response = ScoringResponse(FALSE)
    /\ a_error = NoError

LoopIdle ==
    /\ l_req = <<>>
    /\ l_thread = 0

ViewIdle ==
    /\ v_pc = "idle"
    /\ v_fn = "none"
    /\ v_input = <<>>
    /\ v_html = <<>>

ScoreIdle ==
    /\ s_pc = "idle"
    /\ s_scoring = <<>>
    /\ s_feedback = <<>>
    /\ s_score = ScorePair(0, 0)

NormIdle ==
    /\ n_pc = "idle"
    /\ n_x = <<>>
    /\ n_y = <<>>
    /\ n_nx = <<>>
    /\ n_ny = <<>>

NormInit ==
    /\ n_pc = "input"
    /\ n_x \in StringsUpTo(NormAtoms, MaxLabelLen)
    /\ n_y = <<>>
    /\ n_nx = <<>>
    /\ n_ny = <<>>
    /\ ParseIdle
    /\ ScoreIdle
    /\ GradeIdle
    /\ AnswerIdle
    /\ LoopIdle
    /\ ViewIdle

\* normalize_course_name applied to a label and to one of its relatives
NormalizePair ==
    /\ n_pc = "input"
    /\ \E y \in Relatives(n_x) :
        /\ n_y' = y
        /\ n_nx' = normalize_course_name(n_x)
        /\ n_ny' = normalize_course_name(y)
    /\ n_pc' = "normalized"
    /\ UNCHANGED <<n_x, parseVars, scoreVars, gradeVars, answerVars, loopVars, viewVars>>

NormNext == NormalizePair

SpecNorm == NormInit /\ [][NormNext]_vars

----------------------------------------------------------------------------
(* Specification SpecParse: classify_frq_course's parse chain on the texts *)
(* the classification generator can return                                 *)

\* labels the generator names, and labels the caller gives
BiologyLabel == <<"A", "P", " ", "Biology">>
LanguageLabel == <<"A", "P", " ", "Language">>
ChemistryLabel == <<"A", "P", " ", "Chemistry">>
PhysicsLabel == <<"Physics">>

\* {"course_of_the_frq": "AP Biology"}
BiologyObject ==
    <<Tok("lb"), StrTok(CourseKey), Tok("colon"), StrTok(BiologyLabel), Tok("rb")>>

\* the pieces classification texts are put together from: a prose word, the
\* two braces, the object above, "course_of_the_frq": followed by another
\* label, by the empty string and by a number, a bare string literal, and
\* another key with its colon
Chunks ==
    { <<Tok("word")>>,
      <<Tok("lb")>>,
      <<Tok("rb")>>,
      BiologyObject,
      <<StrTok(CourseKey), Tok("colon"), StrTok(LanguageLabel)>>,
      <<StrTok(CourseKey), Tok("colon"), StrTok(<<>>)>>,
      <<StrTok(CourseKey), Tok("colon"), Tok("num")>>,
      <<StrTok(BiologyLabel)>>,
      <<StrTok(<<"other">>), Tok("colon")>> }

\* the course_title of the request
CourseTitles == {ChemistryLabel, PhysicsLabel}

ParseInit ==
    /\ p_pc = "text"
    /\ p_text = <<>>
    /\ p_chunks = 0
    /\ p_title \in CourseTitles
    /\ p_res = Returned("none", <<>>, 0)
    /\ NormIdle
    /\ ScoreIdle
    /\ GradeIdle
    /\ AnswerIdle
    /\ LoopIdle
    /\ ViewIdle

\* the generator's text grows by one piece
AppendChunk ==
    /\ p_pc = "text"
    /\ p_chunks < MaxChunks
    /\ \E c \in Chunks : p_text' = p_text \o c
    /\ p_chunks' = p_chunks + 1
    /\ UNCHANGED <<p_pc, p_title, p_res, normVars, scoreVars, gradeVars, answerVars, loopVars, viewVars>>

\* classify_frq_course, from the text call_claude_api returned
ClassifyText ==
    /\ p_pc = "text"
    /\ p_res' = classify_parse(p_text, p_title)
    /\ p_pc' = "classified"
    /\ UNCHANGED <<p_text, p_chunks, p_title, normVars, scoreVars, gradeVars, answerVars, loopVars, viewVars>>

ParseNext == AppendChunk \/ ClassifyText

SpecParse == ParseInit /\ [][ParseNext]_vars

----------------------------------------------------------------------------
(* Specification SpecScore: extract_score_from_env_science on pairs of texts *)

\* the lexemes the enumerated texts are made of
ScoreLexemes ==
    {Word, ScoreTag, FinalScore(4, 6), FinalScore(1, 2), TotalScore(3, 6), TotalScore(2, 2)}

ScoreInit ==
    /\ s_pc = "texts"
    /\ s_scoring \in StringsUpTo(ScoreLexemes, MaxScoringLen)
    /\ s_feedback \in StringsUpTo(ScoreLexemes, MaxFeedbackLen)
    /\ s_score = ScorePair(0, 0)
    /\ NormIdle
    /\ ParseIdle
    /\ GradeIdle
    /\ AnswerIdle
    /\ LoopIdle
    /\ ViewIdle

\* extract_score_from_env_science applied to the two texts
ExtractScore ==
    /\ s_pc = "texts"
    /\ s_score' = extract_score_from_env_science(s_scoring, s_feedback)
    /\ s_pc' = "extracted"
    /\ UNCHANGED <<s_scoring, s_feedback, normVars, parseVars, gradeVars, answerVars, loopVars, viewVars>>

ScoreNext == ExtractScore

SpecScore == ScoreInit /\ [][ScoreNext]_vars

----------------------------------------------------------------------------
(* Specification Spec: one request through grade_frq.  An action is one    *)
(* answer of an upstream service, or the end of one sleep, together with   *)
(* all the code that runs from there to the next upstream request, sleep,  *)
(* return or raise.                                                        *)

\* "AP " followed by a course name
Ap(name) == <<"A", "P", " ">> \o name

\* the acceptable course names of the classification prompt
SubjectLabels ==
    { Ap(<<"United States History">>), Ap(<<"World History">>),
      Ap(<<"Human Geography">>), Ap(<<"United States Government">>),
      Ap(<<"Microeconomics">>), Ap(<<"Environmental", " ", "Science">>),
      Ap(<<"Biology">>), Ap(<<"Chemistry">>), Ap(<<"Physics">>),
      Ap(<<"Literature">>), Ap(<<"Language">>) }

\* a label outside the list
UnlistedLabel == Ap(<<"Basket Weaving">>)

\* labels that hold a subject's name between other words
WordyLabels ==
    { Ap(<<"Environmental", " ", "Science", " ", "FRQ">>),
      <<"Honors", " ", "Environmental", " ", "Science">>,
      Ap(<<"English", " ", "Language">>) }

\* {"course_of_the_frq": label}
CourseObject(label) ==
    <<Tok("lb"), StrTok(CourseKey), Tok("colon"), StrTok(label), Tok("rb")>>

\* the texts the classification generator answers with: the requested JSON
\* for each label, the same between prose, prose alone, an object without
\* the field, a bare string literal and a number for the field
ClassificationTexts ==
    {CourseObject(l) : l \in SubjectLabels \cup {UnlistedLabel} \cup WordyLabels}
    \cup { <<Tok("word")>> \o CourseObject(Ap(<<"Biology">>)) \o <<Tok("word")>>,
           <<Tok("word")>>,
           <<Tok("lb"), Tok("rb")>>,
           <<StrTok(Ap(<<"Biology">>))>>,
           <<Tok("lb"), StrTok(CourseKey), Tok("colon"), Tok("num"), Tok("rb")>> }

\* the texts the stage-1 generator answers with
Stage1Texts ==
    { <<ScoreTag, Word, TotalScore(3, 6)>>,
      <<TotalScore(3, 6), ScoreTag>>,
      <<Word>> }

\* the texts the stage-2 generator answers with
Stage2Texts ==
    { <<Word, FinalScore(4, 6), Word>>,
      <<Word>>,
      <<TotalScore(2, 2)>> }

\* the status-200 bodies of the Claude API, for the call fn
ClaudeBodies(f) ==
    LET texts == IF f = "classify" THEN ClassificationTexts ELSE Stage1Texts
    IN  {ClaudeBody("content", t) : t \in texts}
        \cup {ClaudeBody("text", CHOOSE t \in texts : TRUE),
              ClaudeBody("empty", <<>>)}

\* the HTTP statuses the Claude API answers with
ClaudeStatuses == {200, 201, 429, 503}

\* a plausible slip: every 2xx status taken as success
is_2xx(status) == status \in 200..299

\* if response.status_code == 200
is_success(status) == status = 200

\* how a request to the Claude API fails: a non-200 status, an exception of
\* requests.post, or a status-200 body that raises
ClaudeFailures ==
    {Failure("non200", st, "overloaded") : st \in {s \in ClaudeStatuses : ~is_success(s)}}
    \cup {Failure("exception", 0, ""), Failure("exception", 200, "")}

\* the members an upstream scoring endpoint reports
Members == {Absent, Null} \cup {Num(n) : n \in 0..MaxPts}
Rows ==
    {Row("absent", Absent), Row("null", Absent), Row("obj", Absent)}
    \cup {Row("obj", Num(n)) : n \in 0..MaxPts}

\* the fact_check members the language and literature endpoints report; an
\* absent reasoning is rendered as the empty string
FactChecks ==
    {FactCheck("absent", Absent, <<>>), FactCheck("null", Absent, <<>>),
     FactCheck("str", Absent, <<>>)}
    \cup {FactCheck("obj", s, r) : s \in {Absent, Null, Num(0), Num(1)},
                                   r \in {<<>>, <<"misquoted", " ", "source">>}}

\* the status-200 JSON objects of the language and literature endpoints
LangLitBodies ==
    [original_total_score : Members, rowA : Rows, rowB : Rows, rowC : Rows,
     fact_check : FactChecks]

\* the status-200 JSON objects of the general endpoint
\* the rationale and the feedback of a general body the pipeline is run
\* with: the pipeline passes them through to the renderer untouched
GradedTexts ==
    [rationale |-> StrText("r"), rationale_for_the_score |-> NoText,
     feedback |-> ListText(<<"a", "b">>), feedback_to_the_student |-> NoText]

GeneralBodies ==
    {s @@ GradedTexts :
        s \in [total_points : Members, awarded_points : Members,
               score_percentage : Members]}

\* the course_title of the request
RequestTitles == {Ap(<<"Literature">>), <<"chemistry">>}

\* the forms sent to /grade/: each text field left out, sent empty, or sent
\* with a text
GradeForms ==
    [course_title : {Missing, Given(<<>>)} \cup {Given(s) : s \in RequestTitles},
     question : {Missing, Given(<<>>), Given(<<"question">>)},
     student_answer : {Missing, Given(<<>>), Given(<<"answer">>)},
     scoring_rubric : {Missing, Given(<<>>), Given(<<"rubric">>)}]

\* a plausible slip: the parameter declared with a default, Form("")
form_optional(field) == TRUE

\* Form(...): a required form field.  The framework binds the parameter when
\* the field is sent with a non-empty text; a field left out or sent empty
\* counts as missing and the request is answered 422 without the handler
\* being called
form_required(field) == field.given /\ field.text # <<>>

\* the four required text parameters of grade_frq are bound
form_binds(f) ==
    /\ form_required(f.course_title)
    /\ form_required(f.question)
    /\ form_required(f.student_answer)
    /\ form_required(f.scoring_rubric)

\* the framework's answer to a request it cannot bind
validation_error == HTTPError(422, "Field required", 0, "")

Init ==
    /\ form \in GradeForms
    /\ pc = "start"
    /\ course_title = <<>>
    /\ fn = "none"
    /\ attempt = 0
    /\ calls = <<>>
    /\ classified_course = Returned("none", <<>>, 0)
    /\ normalized_course = <<>>
    /\ strategy = "none"
    /\ scoring_response = <<>>
    /\ feedback_response = <<>>
    /\ openai_prompt = <<>>
    /\ api_response = <<>>
    /\ response = NoResponse
    /\ error = NoError
    /\ NormIdle
    /\ ParseIdle
    /\ ScoreIdle
    /\ AnswerIdle
    /\ LoopIdle
    /\ ViewIdle

\* a request whose form lacks a required field never reaches grade_frq
Reject ==
    /\ pc = "start"
    /\ ~form_binds(form)
    /\ pc' = "rejected"
    /\ error' = validation_error
    /\ UNCHANGED <<form, course_title, fn, attempt, calls, classified_course,
                   normalized_course, strategy, scoring_response,
                   feedback_response, openai_prompt, api_response, response>>
    /\ UNCHANGED <<normVars, parseVars, scoreVars, answerVars, loopVars, viewVars>>

\* grade_frq up to the first request of classify_frq_course
Receive ==
    /\ pc = "start"
    /\ form_binds(form)
    /\ course_title' = form.course_title.text
    /\ UNCHANGED <<normVars, parseVars, scoreVars, answerVars, form, loopVars, viewVars>>
    /\ pc' = "claude_try"
    /\ fn' = "classify"
    /\ attempt' = 0
    /\ calls' = Append(calls, NewCall("classify"))
    /\ UNCHANGED <<classified_course, normalized_course, strategy,
                   scoring_response, feedback_response, openai_prompt,
                   api_response, response, error>>

\* a plausible slip: the exception swallowed and the request carried on
FailSwallowed(e, cs) ==
    /\ pc' = "done"
    /\ error' = NoError
    /\ calls' = cs
    /\ UNCHANGED <<fn, attempt>>

\* an exception leaves grade_frq
Fail(e, cs) ==
    /\ pc' = "error"
    /\ error' = e
    /\ calls' = cs
    /\ UNCHANGED <<fn, attempt>>

\* classify_frq_course from the text call_claude_api returned, then
\* normalize_course_name and the dispatch, up to the strategy's first request
AfterClassify(text, cs) ==
    LET c == classify_parse(text, course_title)
    IN  /\ classified_course' = c
        /\ UNCHANGED <<scoring_response, feedback_response, openai_prompt,
                       api_response, response>>
        /\ IF c.out = "raise" \/ c.kind # "str"
           THEN \* .get on a non-dict, or .strip on a non-str: AttributeError
                /\ Fail(internal_error, cs)
                /\ UNCHANGED <<normalized_course, strategy>>
           ELSE /\ normalized_course' = normalize_course_name(c.s)
                /\ strategy' = route(normalized_course')
                /\ error' = error
                /\ attempt' = 0
                /\ IF strategy' = "two_stage"
                   THEN /\ pc' = "claude_try"
                        /\ fn' = "stage1"
                        /\ calls' = Append(cs, NewCall("stage1"))
                   ELSE /\ pc' = "post"
                        /\ fn' = strategy'
                        /\ calls' = Append(cs, NewCall(strategy'))

\* the two-stage branch from the text stage 1 returned to the first request
\* of call_openai_api
AfterStage1(text, cs) ==
    /\ scoring_response' = text
    /\ openai_prompt' = create_openai_prompt(text)
    /\ pc' = "openai_try"
    /\ fn' = "stage2"
    /\ attempt' = 0
    /\ calls' = Append(cs, NewCall("stage2"))
    /\ UNCHANGED <<classified_course, normalized_course, strategy,
                   feedback_response, api_response, response, error>>

\* call_claude_api: a status-200 answer whose text is returned
ClaudeReturns ==
    /\ pc = "claude_try"
    /\ UNCHANGED <<normVars, parseVars, scoreVars, answerVars, form, loopVars, viewVars>>
    /\ \E st \in {s \in ClaudeStatuses : is_success(s)}, body \in ClaudeBodies(fn) :
        LET cs == CallEnds(CallAttempt(calls, st, ""), "returned")
        IN  IF fn = "classify"
            THEN AfterClassify(claude_result(body).text, cs)
            ELSE AfterStage1(claude_result(body).text, cs)
    /\ UNCHANGED course_title

\* call_claude_api: a request that fails; backoff, or the fatal error
ClaudeFails ==
    /\ pc = "claude_try"
    /\ UNCHANGED <<normVars, parseVars, scoreVars, answerVars, form, loopVars, viewVars>>
    /\ \E f \in ClaudeFailures :
        LET cs == CallAttempt(calls, f.status, f.text)
        IN  IF CanRetry(attempt)
            THEN /\ pc' = "claude_sleep"
                 /\ calls' = CallSleeps(cs)
                 /\ UNCHANGED <<fn, attempt, error>>
            ELSE \E e \in claude_fatal(f) : Fail(e, CallEnds(cs, "raised"))
    /\ UNCHANGED <<course_title, classified_course, normalized_course, strategy,
                   scoring_response, feedback_response, openai_prompt,
                   api_response, response>>

\* the for loop of a retried call goes round after the sleep; were the range
\* exhausted the function would end without a return statement
LoopAgain(tryAt) ==
    IF attempt + 1 < MaxAttempts
    THEN /\ pc' = tryAt
         /\ attempt' = attempt + 1
         /\ UNCHANGED <<calls, error>>
    ELSE /\ pc' = "error"
         /\ attempt' = attempt + 1
         /\ calls' = CallEnds(calls, "returned_none")
         /\ error' = internal_error

\* call_claude_api: asyncio.sleep(4) is over
ClaudeWakes ==
    /\ pc = "claude_sleep"
    /\ UNCHANGED <<normVars, parseVars, scoreVars, answerVars, form, loopVars, viewVars>>
    /\ LoopAgain("claude_try")
    /\ UNCHANGED <<course_title, fn, classified_course, normalized_course, strategy,
                   scoring_response, feedback_response, openai_prompt,
                   api_response, response>>

\* call_openai_api returns the text; the score is extracted, the view
\* rendered and the response returned
OpenAIReturns ==
    /\ pc = "openai_try"
    /\ UNCHANGED <<normVars, parseVars, scoreVars, answerVars, form, loopVars, viewVars>>
    /\ \E text \in Stage2Texts :
        LET score == extract_score_from_env_science(scoring_response, text)
        IN  /\ feedback_response' = text
            /\ response' = GradingResponse(
                    scoring_response, text,
                    create_environmental_science_html(scoring_response, text),
                    score.possible, score.earned)
    /\ calls' = CallEnds(CallAttempt(calls, 200, ""), "returned")
    /\ pc' = "done"
    /\ UNCHANGED <<course_title, fn, attempt, classified_course, normalized_course,
                   strategy, scoring_response, openai_prompt, api_response, error>>

\* call_openai_api: the client raises; backoff, or the fatal error
OpenAIFails ==
    /\ pc = "openai_try"
    /\ UNCHANGED <<normVars, parseVars, scoreVars, answerVars, form, loopVars, viewVars>>
    /\ LET cs == CallAttempt(calls, 0, "")
       IN  IF CanRetry(attempt)
           THEN /\ pc' = "openai_sleep"
                /\ calls' = CallSleeps(cs)
                /\ UNCHANGED <<fn, attempt, error>>
           ELSE Fail(openai_fatal, CallEnds(cs, "raised"))
    /\ UNCHANGED <<course_title, classified_course, normalized_course, strategy,
                   scoring_response, feedback_response, openai_prompt,
                   api_response, response>>

\* call_openai_api: time.sleep(4) is over
OpenAIWakes ==
    /\ pc = "openai_sleep"
    /\ UNCHANGED <<normVars, parseVars, scoreVars, answerVars, form, loopVars, viewVars>>
    /\ LoopAgain("openai_try")
    /\ UNCHANGED <<course_title, fn, classified_course, normalized_course, strategy,
                   scoring_response, feedback_response, openai_prompt,
                   api_response, response>>

\* the language / literature branch after a status-200 JSON object
LangLitReturns ==
    /\ pc = "post"
    /\ UNCHANGED <<normVars, parseVars, scoreVars, answerVars, form, loopVars, viewVars>>
    /\ strategy \in {"language", "literature"}
    /\ \E body \in LangLitBodies :
        LET earned == lang_lit_earned(body)
            cs == CallEnds(CallAttempt(calls, 200, ""), "returned")
        IN  /\ api_response' = body
            /\ IF earned.ok
               THEN /\ response' = GradingResponse(
                            json_dumps(body), <<>>,
                            create_language_literature_html(json_dumps(body)),
                            LangLitPossible, earned.n)
                    /\ pc' = "done"
                    /\ calls' = cs
                    /\ UNCHANGED <<fn, attempt, error>>
               ELSE /\ Fail(internal_error, cs)
                    /\ UNCHANGED response
    /\ UNCHANGED <<course_title, classified_course, normalized_course, strategy,
                   scoring_response, feedback_response, openai_prompt>>

\* the general branch after a status-200 JSON object
GeneralReturns ==
    /\ pc = "post"
    /\ UNCHANGED <<normVars, parseVars, scoreVars, answerVars, form, loopVars, viewVars>>
    /\ strategy = "general"
    /\ \E body \in GeneralBodies :
        LET possible == get_float(body.total_points)
            earned == get_float(body.awarded_points)
            cs == CallEnds(CallAttempt(calls, 200, ""), "returned")
        IN  /\ api_response' = body
            /\ IF possible.ok /\ earned.ok
               THEN /\ response' = GradingResponse(
                            json_dumps(body), <<>>,
                            create_general_course_html(json_dumps(body)),
                            possible.n, earned.n)
                    /\ pc' = "done"
                    /\ calls' = cs
                    /\ UNCHANGED <<fn, attempt, error>>
               ELSE /\ Fail(internal_error, cs)
                    /\ UNCHANGED response
    /\ UNCHANGED <<course_title, classified_course, normalized_course, strategy,
                   scoring_response, feedback_response, openai_prompt>>

\* the literal each branch puts in front of response.text
PostErrorMsg(st) ==
    CASE st = "language" -> "Error from AP Language API"
      [] st = "literature" -> "Error from AP Literature API"
      [] OTHER -> "Error from AP grader API"

\* requests.post of a scoring endpoint answers with a status other than 200
PostRefused ==
    /\ pc = "post"
    /\ UNCHANGED <<normVars, parseVars, scoreVars, answerVars, form, loopVars, viewVars>>
    /\ \E st \in {201, 429, 503} :
        Fail(HTTPError(500, PostErrorMsg(strategy), 0, "overloaded"),
             CallEnds(CallAttempt(calls, st, "overloaded"), "raised"))
    /\ UNCHANGED <<course_title, classified_course, normalized_course, strategy,
                   scoring_response, feedback_response, openai_prompt,
                   api_response, response>>

\* requests.post of a scoring endpoint raises, or response.json() does
PostRaises ==
    /\ pc = "post"
    /\ UNCHANGED <<normVars, parseVars, scoreVars, answerVars, form, loopVars, viewVars>>
    /\ \E st \in {0, 200} :
        Fail(internal_error, CallEnds(CallAttempt(calls, st, ""), "raised"))
    /\ UNCHANGED <<course_title, classified_course, normalized_course, strategy,
                   scoring_response, feedback_response, openai_prompt,
                   api_response, response>>

Next ==
    \/ Reject
    \/ Receive
    \/ ClaudeReturns
    \/ ClaudeFails
    \/ ClaudeWakes
    \/ OpenAIReturns
    \/ OpenAIFails
    \/ OpenAIWakes
    \/ LangLitReturns
    \/ GeneralReturns
    \/ PostRefused
    \/ PostRaises

Spec == Init /\ [][Next]_vars

----------------------------------------------------------------------------
(* Specification SpecServices: one request to either service, grade_frq of *)
(* the router or score_answer of the subject-agnostic scoring service      *)
(* (src/ap-frq-grader.py).                                                 *)

\* the JSON bodies sent to /score/: each field of ScoringRequest left out,
\* sent empty, or sent with a text
ScoringRequests ==
    [question : {Missing, Given(<<>>), Given(<<"question">>)},
     student_answer : {Missing, Given(<<>>), Given(<<"answer">>)},
     scoring_rubric : {Missing, Given(<<>>), Given(<<"rubric">>)}]

\* ScoringRequest(BaseModel): the three str fields are required; a body
\* lacking one is answered 422 without the handler being called
request_binds(r) ==
    r.question.given /\ r.student_answer.given /\ r.scoring_rubric.given

\* a plausible slip: the input validation left out
all_fields_unchecked(r) == TRUE

\* all([request.question, request.student_answer, request.scoring_rubric])
all_fields(r) ==
    r.question.text # <<>> /\ r.student_answer.text # <<>>
    /\ r.scoring_rubric.text # <<>>

\* HTTPException(400, "All fields ... are required")
fields_required_error == HTTPError(400, "All fields are required", 0, "")

\* the contents the OpenAI client returns to score_answer: the requested
\* JSON object, a JSON object that is no ScoringResponse, text that is no
\* JSON, and no content
AnswerTexts == {"scoring_json", "other_json", "not_json", "none"}

AnswerInit ==
    /\ a_request \in ScoringRequests
    /\ a_pc = "start"
    /\ a_attempt = 0
    /\ a_calls = <<>>
    /\ a_note = FALSE
    /\ a_response = ScoringResponse(FALSE)
    /\ a_error = NoError
    /\ NormIdle
    /\ ParseIdle
    /\ ScoreIdle
    /\ GradeIdle
    /\ LoopIdle
    /\ ViewIdle

\* an exception leaves score_answer
AnswerFail(e, cs) ==
    /\ a_pc' = "error"
    /\ a_error' = e
    /\ a_calls' = cs
    /\ UNCHANGED <<a_request, a_attempt, a_note, a_response>>

\* a body lacking a field of ScoringRequest never reaches score_answer
AnswerReject ==
    /\ a_pc = "start"
    /\ ~request_binds(a_request)
    /\ a_pc' = "rejected"
    /\ a_error' = validation_error
    /\ UNCHANGED <<a_request, a_attempt, a_calls, a_note, a_response>>
    /\ UNCHANGED <<normVars, parseVars, scoreVars, gradeVars, loopVars, viewVars>>

\* score_answer: the input validation, up to the call of calculations_check
AnswerReceive ==
    /\ a_pc = "start"
    /\ request_binds(a_request)
    /\ IF all_fields(a_request)
       THEN /\ a_pc' = "calc"
            /\ a_calls' = Append(a_calls, NewCall("calculations_check"))
            /\ UNCHANGED <<a_request, a_attempt, a_note, a_response, a_error>>
       ELSE AnswerFail(fields_required_error, a_calls)
    /\ UNCHANGED <<normVars, parseVars, scoreVars, gradeVars, loopVars, viewVars>>

\* calculations_check returns; the prompt is made and call_openai_api makes
\* its first request
AnswerCalcReturns ==
    /\ a_pc = "calc"
    /\ \E requires_calculation \in BOOLEAN : a_note' = requires_calculation
    /\ a_pc' = "openai_try"
    /\ a_attempt' = 0
    /\ a_calls' = Append(CallEnds(CallAttempt(a_calls, 200, ""), "returned"),
                         NewCall("openai"))
    /\ UNCHANGED <<a_request, a_response, a_error>>
    /\ UNCHANGED <<normVars, parseVars, scoreVars, gradeVars, loopVars, viewVars>>

\* calculations_check raises
AnswerCalcRaises ==
    /\ a_pc = "calc"
    /\ AnswerFail(internal_error, CallEnds(CallAttempt(a_calls, 0, ""), "raised"))
    /\ UNCHANGED <<normVars, parseVars, scoreVars, gradeVars, loopVars, viewVars>>

\* what score_answer makes of the content call_openai_api returned
answer_error(text) ==
    CASE text = "none" -> HTTPError(500, "Failed to get response from Claude API", 0, "")
      [] text = "not_json" -> HTTPError(500, "Invalid JSON response from Claude", 0, "")
      [] text = "other_json" -> internal_error
      [] OTHER -> NoError

\* call_openai_api returns the content of the completion
AnswerOpenAIReturns ==
    /\ a_pc = "openai_try"
    /\ \E text \in AnswerTexts :
        LET cs == CallEnds(CallAttempt(a_calls, 200, ""), "returned")
        IN  IF answer_error(text) = NoError
            THEN /\ a_pc' = "done"
                 /\ a_response' = ScoringResponse(TRUE)
                 /\ a_calls' = cs
                 /\ UNCHANGED <<a_request, a_attempt, a_note, a_error>>
            ELSE AnswerFail(answer_error(text), cs)
    /\ UNCHANGED <<normVars, parseVars, scoreVars, gradeVars, loopVars, viewVars>>

\* call_openai_api: the client raises.  The except branch evaluates
\* time.sleep(4) when attempt < 2, and the module does not import time: the
\* NameError leaves call_openai_api and score_answer makes a 500 of it
AnswerOpenAIFails ==
    /\ a_pc = "openai_try"
    /\ LET cs == CallEnds(CallAttempt(a_calls, 0, ""), "raised")
       IN  IF CanRetry(a_attempt)
           THEN AnswerFail(internal_error, cs)
           ELSE AnswerFail(openai_fatal, cs)
    /\ UNCHANGED <<normVars, parseVars, scoreVars, gradeVars, loopVars, viewVars>>

AnswerNext ==
    \/ AnswerReject
    \/ AnswerReceive
    \/ AnswerCalcReturns
    \/ AnswerCalcRaises
    \/ AnswerOpenAIReturns
    \/ AnswerOpenAIFails

ServicesInit == Init \/ AnswerInit

ServicesNext == Next \/ AnswerNext

SpecServices == ServicesInit /\ [][ServicesNext]_vars

----------------------------------------------------------------------------
(* Specification SpecLoop: several requests to grade_frq, all classified   *)
(* as Environmental Science, on the one thread of the event loop.          *)
(* grade_frq is a coroutine: once the loop runs it, it keeps the thread    *)
(* until it awaits something that suspends (asyncio.sleep), returns or     *)
(* raises.  requests.post, the OpenAI client and time.sleep are plain      *)
(* calls: the thread stays with the request while they last.               *)

Requests == 1..NumRequests

\* where a request is: "arrived" (not yet run), "request" (inside an
\* upstream request of call fn), "async_sleep" (suspended in
\* asyncio.sleep(4)), "thread_sleep" (inside time.sleep(4)), "done", "error"
LoopRequest(at, f, a) == [pc |-> at, fn |-> f, attempt |-> a]

\* the thread after request r gave it up: free for any other coroutine
Released == 0

LoopInit ==
    /\ l_req = [r \in Requests |-> LoopRequest("arrived", "none", 0)]
    /\ l_thread = Released
    /\ NormIdle
    /\ ParseIdle
    /\ ScoreIdle
    /\ GradeIdle
    /\ AnswerIdle
    /\ ViewIdle

\* await asyncio.sleep(4): call_claude_api's backoff suspends the coroutine
claude_backoff == "async_sleep"

\* time.sleep(4): call_openai_api's backoff keeps the thread
openai_backoff == "thread_sleep"

\* the backoff of the call f
backoff_of(f) == IF f = "stage2" THEN openai_backoff ELSE claude_backoff

\* the thread while request r is at pc
thread_at(r, at) ==
    IF at \in {"request", "thread_sleep"} THEN r ELSE Released

\* the loop runs grade_frq for a request that arrived, up to the first
\* request of the classification call
LoopStart ==
    \E r \in Requests :
        /\ l_req[r].pc = "arrived"
        /\ l_thread = Released
        /\ l_req' = [l_req EXCEPT ![r] = LoopRequest("request", "classify", 0)]
        /\ l_thread' = r
        /\ UNCHANGED <<normVars, parseVars, scoreVars, gradeVars, answerVars, viewVars>>

\* an upstream request of r is answered and the call returns: the next call
\* of the two-stage strategy begins, or grade_frq returns
LoopCallReturns ==
    \E r \in Requests :
        /\ l_req[r].pc = "request"
        /\ LET next == CASE l_req[r].fn = "classify" -> LoopRequest("request", "stage1", 0)
                          [] l_req[r].fn = "stage1" -> LoopRequest("request", "stage2", 0)
                          [] OTHER -> LoopRequest("done", "stage2", l_req[r].attempt)
           IN  /\ l_req' = [l_req EXCEPT ![r] = next]
               /\ l_thread' = thread_at(r, next.pc)
        /\ UNCHANGED <<normVars, parseVars, scoreVars, gradeVars, answerVars, viewVars>>

\* an upstream request of r fails: the backoff of its call, or the fatal
\* error after the last attempt
LoopCallFails ==
    \E r \in Requests :
        /\ l_req[r].pc = "request"
        /\ LET at == IF CanRetry(l_req[r].attempt) THEN backoff_of(l_req[r].fn)
                     ELSE "error"
           IN  /\ l_req' = [l_req EXCEPT ![r].pc = at]
               /\ l_thread' = thread_at(r, at)
        /\ UNCHANGED <<normVars, parseVars, scoreVars, gradeVars, answerVars, viewVars>>

\* asyncio.sleep(4) of r is over and the loop, once free, resumes r
LoopResumes ==
    \E r \in Requests :
        /\ l_req[r].pc = "async_sleep"
        /\ l_thread = Released
        /\ l_req' = [l_req EXCEPT ![r].pc = "request", ![r].attempt = @ + 1]
        /\ l_thread' = r
        /\ UNCHANGED <<normVars, parseVars, scoreVars, gradeVars, answerVars, viewVars>>

\* time.sleep(4) of r returns
LoopSleepReturns ==
    \E r \in Requests :
        /\ l_req[r].pc = "thread_sleep"
        /\ l_thread = r
        /\ l_req' = [l_req EXCEPT ![r].pc = "request", ![r].attempt = @ + 1]
        /\ l_thread' = r
        /\ UNCHANGED <<normVars, parseVars, scoreVars, gradeVars, answerVars, viewVars>>

LoopNext ==
    \/ LoopStart
    \/ LoopCallReturns
    \/ LoopCallFails
    \/ LoopResumes
    \/ LoopSleepReturns

SpecLoop == LoopInit /\ [][LoopNext]_vars

----------------------------------------------------------------------------
(* SpecRender: the three render functions, each called once on any input *)

Renderers == {"environmental_science", "language_literature", "general"}

RenderLexemes ==
    {Word, FinalScore(4, 6), ApEstimate(3), DidWellMarker, WarningSign,
     HowToImprove, NextStepsMarker, Rocket}

FeedbackTexts == StringsUpTo(RenderLexemes, MaxRenderLen)

RationaleTexts == {NoText, NullText, StrText(""), StrText("r"), StrText("s")}

FeedbackMembers ==
    {NoText, NullText}
    \cup {StrText(s) : s \in {"", "a"}}
    \cup {ListText(l) : l \in StringsUpTo({"a", "b"}, MaxPoints)}

RenderedScores ==
    {[total_points |-> Num(2), awarded_points |-> Num(1), score_percentage |-> Absent],
     [total_points |-> Num(0), awarded_points |-> Null, score_percentage |-> Absent],
     [total_points |-> Null, awarded_points |-> Num(1), score_percentage |-> Absent],
     [total_points |-> Absent, awarded_points |-> Absent, score_percentage |-> Num(1)]}

RenderedGeneralBodies ==
    {s @@ x : s \in RenderedScores,
              x \in [rationale : RationaleTexts, rationale_for_the_score : RationaleTexts,
                     feedback : FeedbackMembers, feedback_to_the_student : FeedbackMembers]}

\* what a renderer is called with
RenderInputs(f) ==
    IF f = "environmental_science"
    THEN {[scoring |-> <<>>, feedback |-> x] : x \in FeedbackTexts}
    ELSE IF f = "language_literature"
    THEN {json_dumps(b) : b \in LangLitBodies} \cup {NotAnObject}
    ELSE {json_dumps(b) : b \in RenderedGeneralBodies} \cup {NotAnObject}

RenderInit ==
    /\ v_pc = "called"
    /\ v_fn \in Renderers
    /\ v_input \in RenderInputs(v_fn)
    /\ v_html = <<>>
    /\ NormIdle
    /\ ParseIdle
    /\ ScoreIdle
    /\ GradeIdle
    /\ AnswerIdle
    /\ LoopIdle

RenderEnvironmentalScience ==
    /\ v_pc = "called"
    /\ v_fn = "environmental_science"
    /\ v_html' = create_environmental_science_html(v_input.scoring, v_input.feedback)
    /\ v_pc' = "returned"
    /\ UNCHANGED <<v_fn, v_input>>
    /\ UNCHANGED <<normVars, parseVars, scoreVars, gradeVars, answerVars, loopVars>>

RenderLanguageLiterature ==
    /\ v_pc = "called"
    /\ v_fn = "language_literature"
    /\ v_html' = create_language_literature_html(v_input)
    /\ v_pc' = "returned"
    /\ UNCHANGED <<v_fn, v_input>>
    /\ UNCHANGED <<normVars, parseVars, scoreVars, gradeVars, answerVars, loopVars>>

RenderGeneral ==
    /\ v_pc = "called"
    /\ v_fn = "general"
    /\ v_html' = create_general_course_html(v_input)
    /\ v_pc' = "returned"
    /\ UNCHANGED <<v_fn, v_input>>
    /\ UNCHANGED <<normVars, parseVars, scoreVars, gradeVars, answerVars, loopVars>>

RenderNext ==
    \/ RenderEnvironmentalScience
    \/ RenderLanguageLiterature
    \/ RenderGeneral

SpecRender == RenderInit /\ [][RenderNext]_vars

----------------------------------------------------------------------------
(* C2 *)

\* C2 as stated: two labels that differ only in letter case and/or in the
\* presence of one leading "AP " prefix normalize to the same value and are
\* routed to the same strategy.
C2_Original ==
    n_pc = "normalized" =>
        /\ n_nx = n_ny
        /\ route(n_nx) = route(n_ny)

\* the labels for which adding the prefix is undone by normalisation: not
\* blank, no leading whitespace, and not themselves starting with "ap "
PrefixFree(s) ==
    /\ Strip(s) # <<>>
    /\ ~IsSpace(Head(s))
    /\ ~StartsWith(Lower(s), ApPrefix)

\* C2 amended: labels that differ only in letter case normalize to the same
\* value; a label and the same label with one leading "AP " prefix (in any
\* letter case) normalize to the same value when the label without the prefix
\* is not blank, has no leading whitespace and does not itself start with
\* "ap "; in both cases the two are routed to the same strategy.
C2_Normalize ==
    n_pc = "normalized" =>
        ((Len(n_y) = Len(n_x) \/ PrefixFree(n_x)) =>
            /\ n_nx = n_ny
            /\ route(n_nx) = route(n_ny))

\* a prefixed, differently cased label meets its bare form: "AP LANGUAGE"-like
\* input against "language"
C2_Witness ==
    /\ n_pc = "normalized"
    /\ n_x = <<"language">>
    /\ n_y = <<"a", "P", " ", "Language">>
    /\ n_nx = <<"language">>
    /\ n_ny = <<"language">>

----------------------------------------------------------------------------
(* C3 *)

\* the text is one JSON object / holds a JSON object from its first { to its
\* last } / holds the quoted key, a colon and a non-empty string literal
WholeIsObject(text) == json_loads(text).ok /\ json_loads(text).kind = "obj"
SpanIsObject(text) == HasSpan(text) /\ json_loads(Span(text)).ok
FieldOf(v) == IF v.has THEN [kind |-> v.fkind, s |-> v.fs] ELSE [kind |-> "str", s |-> <<>>]
ResultValue(r) == [kind |-> r.kind, s |-> r.s]

\* the places i..j where the text embeds a JSON object that carries
\* course_of_the_frq, with no brace before or after it
EmbeddedObjects(text) ==
    {ij \in (1..Len(text)) \X (1..Len(text)) :
        /\ ij[1] <= ij[2]
        /\ ij[2] - ij[1] + 1 < Len(text)
        /\ \A k \in 1..Len(text) :
            (k < ij[1] \/ k > ij[2]) => text[k].t \notin {"lb", "rb"}
        /\ LET v == json_loads(SubSeq(text, ij[1], ij[2]))
           IN  v.ok /\ v.kind = "obj" /\ v.has}

\* C3: classify_frq_course returns the first success of a fixed order: the
\* field of the whole text when the whole text is a JSON object; else the
\* field of the span from the first { to the last } when that span is JSON;
\* else the first textual "course_of_the_frq": "value" match.  A text that
\* is not JSON as a whole and embeds one JSON object carrying
\* course_of_the_frq between prose yields the value of that field.
C3_ParseOrder ==
    p_pc = "classified" =>
        /\ WholeIsObject(p_text) =>
            /\ p_res.out = "return"
            /\ ResultValue(p_res) = FieldOf(json_loads(p_text))
        /\ (~json_loads(p_text).ok /\ SpanIsObject(p_text)) =>
            /\ p_res.out = "return"
            /\ ResultValue(p_res) = FieldOf(json_loads(Span(p_text)))
        /\ (~json_loads(p_text).ok /\ ~SpanIsObject(p_text) /\ KeyMatches(p_text) # {}) =>
            /\ p_res.out = "return"
            /\ ResultValue(p_res) =
                [kind |-> "str", s |-> p_text[Min(KeyMatches(p_text)) + 2].s]
        /\ \A ij \in EmbeddedObjects(p_text) :
            /\ p_res.out = "return"
            /\ ResultValue(p_res) = FieldOf(json_loads(SubSeq(p_text, ij[1], ij[2])))

\* 'prose {"course_of_the_frq": "AP Biology"} trailing' yields "AP Biology",
\* by the second strategy
C3_Witness ==
    /\ p_pc = "classified"
    /\ p_text = <<Tok("word")>> \o BiologyObject \o <<Tok("word")>>
    /\ p_res = Returned("str", BiologyLabel, 2)

----------------------------------------------------------------------------
(* C4 *)

\* no strategy recovers a course_of_the_frq value from the text
NothingRecovered(text) ==
    /\ ~(WholeIsObject(text) /\ json_loads(text).has)
    /\ ~(SpanIsObject(text) /\ json_loads(Span(text)).has)
    /\ KeyMatches(text) = {}

\* C4: for every text from which none of the three strategies recovers a
\* course_of_the_frq value, classify_frq_course returns the caller's
\* course_title unchanged.  Stated for the texts on which it returns at
\* all, so that the exception of a JSON text that is no object (AttributeError
\* from .get) is not what refutes it.
C4_FallbackToTitle ==
    (p_pc = "classified" /\ NothingRecovered(p_text) /\ p_res.out = "return") =>
        ResultValue(p_res) = [kind |-> "str", s |-> p_title]

----------------------------------------------------------------------------
(* C5 *)

\* the first lexeme of kind t in text, and the first one after a tag
FirstOf(text, t) == text[Min({i \in 1..Len(text) : text[i].t = t})]
HasFinal(text) == \E i \in 1..Len(text) : text[i].t = "final"
TaggedTotals(text) ==
    {j \in 1..Len(text) : text[j].t = "total" /\ \E i \in 1..Len(text) : i < j /\ text[i].t = "tag"}

\* C5: when the stage-2 text holds 'Final Score: e/p' the pair of its first
\* occurrence is returned whatever the stage-1 text holds; only when it holds
\* none is the pair of a 'Total Score: e/p' that follows a <score_estimate>
\* tag in the stage-1 text returned.
C5_ScoreOrder ==
    s_pc = "extracted" =>
        /\ HasFinal(s_feedback) =>
            s_score = ScorePair(FirstOf(s_feedback, "final").e, FirstOf(s_feedback, "final").p)
        /\ (~HasFinal(s_feedback) /\ TaggedTotals(s_scoring) # {}) =>
            \E j \in TaggedTotals(s_scoring) :
                s_score = ScorePair(s_scoring[j].e, s_scoring[j].p)

\* both patterns present with different pairs: the stage-2 final score wins
C5_Witness ==
    /\ s_pc = "extracted"
    /\ s_feedback = <<Word, FinalScore(4, 6)>>
    /\ s_scoring = <<ScoreTag, TotalScore(3, 6)>>
    /\ s_score = ScorePair(4, 6)

----------------------------------------------------------------------------
(* C1 *)

\* the subjects of the prompt other than the three with a strategy of their own
OtherSubjects ==
    SubjectLabels \ {Ap(<<"Environmental", " ", "Science">>), Ap(<<"Language">>),
                     Ap(<<"Literature">>)}

\* the upstream calls a strategy makes
StrategyCalls(st) == IF st = "two_stage" THEN {"stage1", "stage2"} ELSE {st}

\* C1: for every label classification returns, grade_frq selects exactly one
\* strategy from the normalized label: 'environmental science' the two-stage
\* strategy, 'language' the language endpoint, 'literature' the literature
\* endpoint, and every other value (the other nine subjects, an unlisted
\* label, the empty string) the general endpoint; only that strategy's
\* upstream calls follow the classification.
C1_Dispatch ==
    strategy # "none" =>
        /\ strategy \in {"two_stage", "language", "literature", "general"}
        /\ (strategy = "two_stage") = (normalized_course = <<"environmental", " ", "science">>)
        /\ (strategy = "language") = (normalized_course = <<"language">>)
        /\ (strategy = "literature") = (normalized_course = <<"literature">>)
        /\ classified_course.s = Ap(<<"Environmental", " ", "Science">>) => strategy = "two_stage"
        /\ classified_course.s = Ap(<<"Language">>) => strategy = "language"
        /\ classified_course.s = Ap(<<"Literature">>) => strategy = "literature"
        /\ classified_course.s \in OtherSubjects \cup {UnlistedLabel, <<>>, <<"chemistry">>} =>
            strategy = "general"
        /\ \A i \in 2..Len(calls) : calls[i].fn \in StrategyCalls(strategy)

\* "AP Literature" has been classified and answered by the literature endpoint
C1_Witness ==
    /\ pc = "done"
    /\ classified_course.s = Ap(<<"Literature">>)
    /\ strategy = "literature"
    /\ calls[2].fn = "literature"

----------------------------------------------------------------------------
(* C6 *)

\* C6: when neither score pattern matches, the extraction returns (0, 0)
\* without raising: once stage 2 has returned such a text the request ends
\* with a response whose total_earned_points and total_possible_points are 0.
C6_Sentinel ==
    (/\ strategy = "two_stage"
     /\ Len(calls) = 3
     /\ calls[3].outcome = "returned"
     /\ ~HasFinal(feedback_response)
     /\ TaggedTotals(scoring_response) = {}) =>
        /\ pc = "done"
        /\ response.total_earned_points = 0
        /\ response.total_possible_points = 0

\* a response built from a stage-1 text whose 'Total Score' precedes the tag
\* and a stage-2 text without 'Final Score'
C6_Witness ==
    /\ pc = "done"
    /\ strategy = "two_stage"
    /\ scoring_response = <<TotalScore(3, 6), ScoreTag>>
    /\ feedback_response = <<TotalScore(2, 2)>>
    /\ response.total_possible_points = 0

----------------------------------------------------------------------------
(* C7 *)

\* the calls made through call_claude_api and call_openai_api
RetriedCalls == {i \in 1..Len(calls) : calls[i].fn \in {"classify", "stage1", "stage2"}}

\* C7: a retried call makes at most 3 attempts and sleeps the 4-second
\* backoff only between attempts: while it runs it has slept once per failed
\* attempt; when it returns it has slept once less than it has attempted
\* (twice when it succeeds on the 3rd attempt); when it raises it has made
\* exactly 3 attempts and slept exactly twice; it never ends without a value.
C7_Retry ==
    \A i \in RetriedCalls :
        LET c == calls[i]
        IN  /\ c.attempts <= 3
            /\ c.slept = 4 * c.sleeps
            /\ c.outcome \in {"running", "returned", "raised"}
            /\ c.outcome = "running" => c.sleeps = c.attempts
            /\ c.outcome = "returned" => c.sleeps = c.attempts - 1
            /\ c.outcome = "raised" => (c.attempts = 3 /\ c.sleeps = 2)

\* a call that failed twice and returned on its 3rd attempt, after 2 sleeps
C7_Witness ==
    \E i \in RetriedCalls :
        /\ calls[i].outcome = "returned"
        /\ calls[i].attempts = 3
        /\ calls[i].sleeps = 2

----------------------------------------------------------------------------
(* C8 *)

\* C8: when the last attempt of a retried Claude call ends with a non-2xx
\* answer, the error raised has the upstream status as its status and the
\* upstream text in its detail.
C8_FatalCarriesUpstream ==
    (/\ pc = "error"
     /\ calls # <<>>
     /\ calls[Len(calls)].fn \in {"classify", "stage1"}
     /\ calls[Len(calls)].outcome = "raised"
     /\ calls[Len(calls)].status >= 300) =>
        /\ error.status = calls[Len(calls)].status
        /\ error.upstream_text = calls[Len(calls)].text

----------------------------------------------------------------------------
(* C9 *)

\* needle occurs in hay as it is
Contains(hay, needle) ==
    \E i \in 0..(Len(hay) - Len(needle)) : SubSeq(hay, i + 1, i + Len(needle)) = needle

\* C9: a request classified as Environmental Science makes, after the
\* classification, the stage-1 call and then the stage-2 call and no other:
\* stage 2 exists only once stage 1 has returned, is made exactly once
\* whatever stage 1 returned, and its prompt holds stage 1's output verbatim.
C9_TwoStage ==
    strategy = "two_stage" =>
        /\ Len(calls) \in {2, 3}
        /\ calls[1].fn = "classify" /\ calls[2].fn = "stage1"
        /\ Len(calls) = 3 => (calls[3].fn = "stage2" /\ calls[2].outcome = "returned")
        /\ calls[2].outcome = "returned" =>
            /\ Len(calls) = 3
            /\ Contains(openai_prompt, scoring_response)
            /\ Len(openai_prompt) > Len(scoring_response)
        /\ pc = "done" => (Len(calls) = 3 /\ calls[3].outcome = "returned")

\* stage 1 answered with prose that holds no score, and stage 2 ran all the same
C9_Witness ==
    /\ pc = "done"
    /\ strategy = "two_stage"
    /\ scoring_response = <<Word>>
    /\ openai_prompt = <<PromptHead, Word, PromptTail>>
    /\ calls[3].fn = "stage2"

----------------------------------------------------------------------------
(* C10 *)

\* what a row counts for: its score, 0 when the row or the score is missing
RowPoints(row) == IF row.k = "obj" /\ row.score.k = "num" THEN row.score.n ELSE 0

\* C10: a language or literature response has total_possible_points 6, and
\* total_earned_points is original_total_score when the answer has that
\* member, otherwise the sum of the rowA, rowB and rowC scores.
C10_LangLitTotals ==
    (pc = "done" /\ strategy \in {"language", "literature"}) =>
        /\ response.total_possible_points = 6
        /\ api_response.original_total_score.k # "absent" =>
            response.total_earned_points = api_response.original_total_score.n
        /\ api_response.original_total_score.k = "absent" =>
            response.total_earned_points =
                RowPoints(api_response.rowA) + RowPoints(api_response.rowB)
                + RowPoints(api_response.rowC)

\* no original_total_score, rowA missing, rowC without a score: rowB's 2 is the total
C10_Witness ==
    /\ pc = "done"
    /\ strategy = "language"
    /\ api_response.original_total_score = Absent
    /\ api_response.rowA = Row("absent", Absent)
    /\ api_response.rowB = Row("obj", Num(2))
    /\ api_response.rowC = Row("obj", Absent)
    /\ response.total_earned_points = 2

----------------------------------------------------------------------------
(* C11 *)

\* the fact_check member is an object whose score is 0
FactCheckScoreZero(body) ==
    body.fact_check.k = "obj" /\ body.fact_check.score = Num(0)

\* every row of the answer has a score to add: none is null
RowsHaveScores(body) ==
    body.rowA.k # "null" /\ body.rowB.k # "null" /\ body.rowC.k # "null"

\* C11: in the language / literature view, a fact_check object whose score
\* is 0 makes the view show the penalized total rowA + 1 + rowC, the
\* unpenalized total rowA + rowB + rowC and the fact-check reasoning; when
\* fact_check is absent, null or has another score (or none), the view has no
\* fact-check block and so no penalized total.
C11_FactCheckPenalty ==
    (pc = "done" /\ strategy \in {"language", "literature"}) =>
        LET html == create_language_literature_html(response.scoring_response)
            a == RowPoints(api_response.rowA)
            b == RowPoints(api_response.rowB)
            c == RowPoints(api_response.rowC)
        IN  /\ response.html_for_app = html
            /\ (FactCheckScoreZero(api_response) /\ RowsHaveScores(api_response)) =>
                /\ html.view = "language_literature"
                /\ html.fact_check_html =
                       FactCheckBlock(api_response.fact_check.reasoning,
                                      a + 1 + c, a + b + c)
                /\ html.total_score = Shown(a + b + c)
            /\ ~FactCheckScoreZero(api_response) =>
                html.fact_check_html = NoFactCheckBlock

\* the spec's example: rows 2, 3 and 1 with a failed fact check show 4 and 6
C11_Witness ==
    /\ pc = "done"
    /\ strategy = "literature"
    /\ api_response.rowA = Row("obj", Num(2))
    /\ api_response.rowB = Row("obj", Num(3))
    /\ api_response.rowC = Row("obj", Num(1))
    /\ api_response.fact_check = FactCheck("obj", Num(0), <<"misquoted", " ", "source">>)
    /\ response.html_for_app.fact_check_html.shown
    /\ response.html_for_app.fact_check_html.penalized_total_score = 4
    /\ response.html_for_app.fact_check_html.total_score = 6

----------------------------------------------------------------------------
(* C12 *)

\* the scoring endpoint of the request answered with status 200 and a JSON
\* object: the POST returned
ScoringAnswered ==
    /\ strategy \in {"language", "literature", "general"}
    /\ calls # <<>>
    /\ calls[Len(calls)].fn = strategy
    /\ calls[Len(calls)].outcome = "returned"

\* C12: malformed upstream content is never fatal: once the language,
\* literature or general endpoint has answered with status 200 and a JSON
\* object, whatever its members (missing, null, not a number), the request
\* ends with a GradingResponse and not with an error.
C12_MalformedNeverFatal ==
    ScoringAnswered => (pc = "done" /\ error = NoError)

----------------------------------------------------------------------------
(* C13 *)

\* the upstream calls of the request that ended in failure
FailedCalls == {i \in 1..Len(calls) : calls[i].outcome = "raised"}

\* C13: a transport failure is fatal for the request: when an upstream call
\* (classification, stage 1, stage 2 or a scoring POST) has ended in failure,
\* the request has ended with an error, that call is the last upstream call
\* of the request, and no GradingResponse is returned.
C13_TransportFatal ==
    \A i \in FailedCalls :
        /\ pc = "error"
        /\ error # NoError
        /\ error.status = 500
        /\ i = Len(calls)
        /\ response = NoResponse

\* stage 2 has failed three times after classification and stage 1 returned
C13_Witness ==
    /\ pc = "error"
    /\ Len(calls) = 3
    /\ calls[1].outcome = "returned"
    /\ calls[2].outcome = "returned"
    /\ calls[3].fn = "stage2"
    /\ calls[3].outcome = "raised"
    /\ calls[3].attempts = MaxAttempts
    /\ response = NoResponse

----------------------------------------------------------------------------
(* C14 *)

\* a required text field of the request is empty or missing
FieldLacking(field) == ~field.given \/ field.text = <<>>

GradeFormLacking ==
    \/ FieldLacking(form.course_title)
    \/ FieldLacking(form.question)
    \/ FieldLacking(form.student_answer)
    \/ FieldLacking(form.scoring_rubric)

ScoringRequestLacking ==
    \/ FieldLacking(a_request.question)
    \/ FieldLacking(a_request.student_answer)
    \/ FieldLacking(a_request.scoring_rubric)

\* C14: a request in which a required text field is empty or missing is
\* rejected with an error before any upstream call is made: no
\* classification, calculation-check, generator or scoring call is ever
\* started for it, and it gets no response.
C14_RejectedBeforeUpstream ==
    /\ (pc # "idle" /\ GradeFormLacking) =>
            /\ calls = <<>>
            /\ pc \in {"start", "rejected"}
            /\ pc = "rejected" => error.status \in {400, 422}
            /\ response = NoResponse
    /\ (a_pc # "idle" /\ ScoringRequestLacking) =>
            /\ a_calls = <<>>
            /\ a_pc \in {"start", "rejected", "error"}
            /\ a_pc # "start" => a_error.status \in {400, 422}
            /\ a_response = ScoringResponse(FALSE)

\* score_answer has refused a request whose scoring_rubric is empty with
\* status 400 before calling anything
C14_Witness ==
    /\ a_pc = "error"
    /\ a_request.question = Given(<<"question">>)
    /\ a_request.student_answer = Given(<<"answer">>)
    /\ a_request.scoring_rubric = Given(<<>>)
    /\ a_error = fields_required_error
    /\ a_calls = <<>>

----------------------------------------------------------------------------
(* C15 *)

\* C15 (rendering is pure) compares two runs of one renderer on the same
\* input.  The three renderers read their arguments only, so they are
\* operators here, and two evaluations of one operator agree in any model:
\* no formula over this model states the claim.

----------------------------------------------------------------------------
(* C16 *)

\* tenths is awarded / total * 100 to the nearest tenth of a percent
NearestTenth(tenths, awarded, total) ==
    LET d == tenths * total - 1000 * awarded
    IN  2 * d <= total /\ -2 * d <= total

\* C16: the general view shows the upstream score_percentage when the answer
\* has that member; when it has not, the view shows awarded_points /
\* total_points * 100 rounded to one decimal if total_points > 0 and 0
\* otherwise, so a total of 0 divides nothing.
C16_Percentage ==
    (pc = "done" /\ strategy = "general") =>
        LET shown == response.html_for_app.score_percentage
            total == get_float(api_response.total_points).n
            awarded == get_float(api_response.awarded_points).n
        IN  /\ response.html_for_app.view = "general"
            /\ api_response.score_percentage.k # "absent" =>
                   shown = UpstreamPercentage(api_response.score_percentage)
            /\ api_response.score_percentage.k = "absent" =>
                   /\ ~shown.upstream
                   /\ total > 0 => NearestTenth(shown.tenths, awarded, total)
                   /\ total <= 0 => shown.tenths = 0

\* 2 of 3 points without an upstream percentage: 66.7 % is shown
C16_Witness ==
    /\ pc = "done"
    /\ strategy = "general"
    /\ api_response.score_percentage = Absent
    /\ api_response.total_points = Num(3)
    /\ api_response.awarded_points = Num(2)
    /\ response.html_for_app.score_percentage = ComputedPercentage(667)

----------------------------------------------------------------------------
(* C17 *)

\* the classification call of the request has returned a text
ClassificationReturned ==
    /\ calls # <<>>
    /\ calls[1].fn = "classify"
    /\ calls[1].outcome = "returned"

\* C17: no step of the classification parse chain raises: whatever text the
\* classification generator returned (valid JSON that is not an object and
\* an object whose course_of_the_frq is not a string included),
\* classify_frq_course, normalize_course_name and the dispatch complete
\* without an exception and a strategy is selected.
C17_ParseChainTotal ==
    ClassificationReturned =>
        /\ classified_course.out = "return"
        /\ strategy \in {"two_stage", "language", "literature", "general"}
        /\ ~(pc = "error" /\ Len(calls) = 1)

----------------------------------------------------------------------------
(* C18 *)

\* C18 as the specification states it: a normalized value that contains
\* "environmental science" selects the two-stage strategy, while "language"
\* and "literature" select theirs only as the whole normalized value.
C18_Original ==
    strategy # "none" =>
        /\ Contains(normalized_course, EnvScienceName) => strategy = "two_stage"
        /\ strategy = "language" => normalized_course = LanguageName
        /\ strategy = "literature" => normalized_course = LiteratureName

\* C18, amended: all three subjects are matched as whole normalized values.
\* A value that holds "environmental science", "language" or "literature"
\* between other words selects the general strategy; only the value
\* "environmental science" itself selects the two-stage strategy.
C18_WholeValueOnly ==
    strategy # "none" =>
        \A name \in {EnvScienceName, LanguageName, LiteratureName} :
            (Contains(normalized_course, name) /\ normalized_course # name) =>
                /\ strategy = "general"
                /\ \A i \in 2..Len(calls) : calls[i].fn = "general"

\* "AP Environmental Science FRQ" has been sent to the general endpoint
C18_Witness ==
    /\ classified_course.s = Ap(<<"Environmental", " ", "Science", " ", "FRQ">>)
    /\ normalized_course = <<"environmental", " ", "science", " ", "frq">>
    /\ strategy = "general"
    /\ Len(calls) = 2
    /\ calls[2].fn = "general"

----------------------------------------------------------------------------
(* C19 *)

\* the calls of the request that failed on a non-200 answer or on an
\* exception of the transport
TransportFailures ==
    {i \in 1..Len(calls) : calls[i].outcome = "raised" /\ calls[i].status # 200}

\* C19: every upstream call is made through the bounded retry: a POST to the
\* language, literature or general endpoint that fails on a non-2xx answer
\* or a transport exception is, like a generator call, retried after the
\* 4-second backoff, so the request fails only after 3 attempts and 2 sleeps.
C19_ScoringPostsRetried ==
    \A i \in TransportFailures :
        /\ calls[i].attempts = MaxAttempts
        /\ calls[i].sleeps = MaxAttempts - 1
        /\ calls[i].slept = BackoffSeconds * (MaxAttempts - 1)

----------------------------------------------------------------------------
(* C20 *)

\* the calls of call_claude_api whose latest request was answered 2xx
Answered2xx ==
    {i \in 1..Len(calls) :
        calls[i].fn \in {"classify", "stage1"} /\ calls[i].status \in 200..299}

\* C20 as the specification states it: a response of the Claude API with a
\* 2xx status, 200 or another, is a success: the call returns it without a
\* retry or a backoff sleep.
C20_Original ==
    \A i \in Answered2xx :
        /\ calls[i].outcome = "returned"
        /\ calls[i].sleeps = calls[i].attempts - 1

\* C20, amended: only status 200 is a success.  A call returns only on an
\* answer with status 200, with no backoff after it; an answer with another
\* 2xx status is a failure like any other: a backoff follows it, or, on the
\* third attempt, the fatal error.
C20_Only200 ==
    \A i \in 1..Len(calls) :
        calls[i].fn \in {"classify", "stage1"} =>
            /\ calls[i].outcome = "returned" =>
                /\ calls[i].status = 200
                /\ calls[i].sleeps = calls[i].attempts - 1
            /\ calls[i].status \in 201..299 =>
                /\ calls[i].outcome \in {"running", "raised"}
                /\ calls[i].outcome = "running" => calls[i].sleeps = calls[i].attempts
                /\ calls[i].outcome = "raised" =>
                    /\ calls[i].attempts = MaxAttempts
                    /\ pc = "error"

\* stage 1 was answered 201, slept, and is about to make its second request
C20_Witness ==
    /\ pc = "claude_try"
    /\ fn = "stage1"
    /\ attempt = 1
    /\ calls[Len(calls)].status = 201
    /\ calls[Len(calls)].attempts = 1
    /\ calls[Len(calls)].sleeps = 1
    /\ calls[Len(calls)].outcome = "running"

----------------------------------------------------------------------------
(* C21 *)

\* request r is waiting in the backoff of one of its upstream calls
InBackoff(r) == l_req[r].pc \in {"async_sleep", "thread_sleep"}

\* request q waits for nothing but the loop: it has arrived, or its own
\* asyncio.sleep may end at any moment
AwaitsTheLoop(q) == l_req[q].pc \in {"arrived", "async_sleep"}

\* C21: a request waiting in the backoff of any of its upstream calls
\* (classification, stage 1, stage 2) does not keep the thread of the event
\* loop: another request in flight that waits only for the loop can take its
\* next step.
C21_BackoffYields ==
    l_req # <<>> =>
        \A r \in Requests : \A q \in Requests \ {r} :
            (InBackoff(r) /\ AwaitsTheLoop(q)) => l_thread # r

----------------------------------------------------------------------------
(* C22 *)

\* the calls of call_openai_api made for the request to score_answer
OpenAICalls == {i \in 1..Len(a_calls) : a_calls[i].fn = "openai"}

\* C22: in the scoring service call_openai_api retries a failed upstream
\* call after a 4-second wait, up to 3 attempts in total: a call does not
\* end in failure on fewer than 3 attempts, so a first attempt that raises
\* is followed by a second one whose result reaches score_answer.
C22_ScoringServiceRetries ==
    \A i \in OpenAICalls :
        a_calls[i].outcome = "raised" =>
            /\ a_calls[i].attempts = MaxAttempts
            /\ a_calls[i].sleeps = MaxAttempts - 1

----------------------------------------------------------------------------
(* C23 *)

\* the classification call of the request has failed on its last attempt
ClassificationFailed ==
    /\ calls # <<>>
    /\ calls[1].fn = "classify"
    /\ calls[1].outcome = "raised"

\* C23 as the specification states it: when the classification upstream
\* call has failed after all its attempts, the classifier returns the
\* caller's course_title and the request goes on to routing with it.
C23_Original ==
    ClassificationFailed =>
        /\ classified_course = Returned("str", course_title, 4)
        /\ strategy = route(normalize_course_name(course_title))

\* C23, amended: the classifier returns the caller's course_title, and the
\* request is routed with it, when the classification call returned a text
\* and every step of the parse chain failed on it (classify_frq_course
\* reached its last return); when the classification call itself has failed
\* after all its attempts, the error ends the request: nothing is
\* classified, no strategy is selected and no other call is made.
C23_FallbackOrFatal ==
    /\ ClassificationFailed =>
            /\ pc = "error"
            /\ calls[1].attempts = MaxAttempts
            /\ classified_course.kind = "none"
            /\ strategy = "none"
            /\ Len(calls) = 1
    /\ (ClassificationReturned /\ classified_course.step = 4) =>
            /\ classified_course.out = "return"
            /\ classified_course.kind = "str"
            /\ classified_course.s = course_title
            /\ normalized_course = normalize_course_name(course_title)
            /\ strategy = route(normalized_course)
            /\ Len(calls) >= 2
            /\ calls[2].fn \in StrategyCalls(strategy)

\* prose without a label came back for "AP Literature": the literature
\* endpoint is called
C23_Witness ==
    /\ ClassificationReturned
    /\ classified_course.step = 4
    /\ course_title = Ap(<<"Literature">>)
    /\ classified_course.s = Ap(<<"Literature">>)
    /\ strategy = "literature"
    /\ Len(calls) = 2
    /\ calls[2].fn = "literature"

----------------------------------------------------------------------------
(* C24 *)

\* where a section marker starts in a text
MarkerStarts(text) ==
    DidWellMatches(text) \cup ImproveMatches(text) \cup NextStepsMatches(text)

\* a section that is empty, or that starts at a marker and holds no other
SectionOfItsOwn(sec) == sec = <<>> \/ MarkerStarts(sec) = {1}

\* C24: no renderer raises on any input string (each call returns a view);
\* the environmental science view shows "?" for the earned points, the
\* possible points and the AP estimate whose pattern is absent from the
\* feedback, an empty section for a marker that is absent, and sections
\* that run from their own marker up to, not including, the next marker
C24_RenderersDegrade ==
    (v_pc = "returned" /\ v_fn = "environmental_science") =>
        /\ v_html.view = "environmental_science"
        /\ FinalMatches(v_input.feedback) = {} =>
               ~v_html.earned_points.known /\ ~v_html.total_points.known
        /\ ApEstimateMatches(v_input.feedback) = {} => ~v_html.ap_score.known
        /\ DidWellMatches(v_input.feedback) = {} => v_html.did_well_section = <<>>
        /\ ImproveMatches(v_input.feedback) = {} => v_html.improve_section = <<>>
        /\ NextStepsMatches(v_input.feedback) = {} => v_html.next_steps_section = <<>>
        /\ SectionOfItsOwn(v_html.did_well_section)
        /\ SectionOfItsOwn(v_html.improve_section)
        /\ SectionOfItsOwn(v_html.next_steps_section)

----------------------------------------------------------------------------
(* C25 *)

\* the feedback member the general renderer reads: 'feedback', or
\* 'feedback_to_the_student' when the body has no 'feedback'
FeedbackGiven(body) ==
    IF body.feedback.k # "absent" THEN body.feedback ELSE body.feedback_to_the_student

\* a text member that is absent or empty
AbsentOrEmpty(x) == x.k \in {"absent", "null"} \/ x.v = <<>> \/ x.v = <<"">>

\* C25: in a rendered general view, feedback given as a list shows one item
\* per element in order, feedback given as a single string shows exactly
\* that one item, feedback under neither name (or an empty list) shows the
\* single default item; the rationale shown is the rationale member, or
\* the rationale_for_the_score member when rationale is absent or empty
C25_DuckTypedFields ==
    (v_pc = "returned" /\ v_fn = "general" /\ v_html.view = "general") =>
        LET body == json_parse(v_input)
            given == FeedbackGiven(body)
            items == v_html.feedback_html
        IN  /\ (given.k = "list" /\ given.v # <<>>) =>
                   /\ Len(items) = Len(given.v)
                   /\ \A i \in 1..Len(items) : items[i] = given.v[i]
            /\ given.k = "str" => Len(items) = 1 /\ items[1] = given.v[1]
            /\ (given.k \in {"absent", "null"} \/ given = ListText(<<>>)) =>
                   items = <<DefaultFeedbackPoint>>
            /\ ~AbsentOrEmpty(body.rationale) => v_html.rationale = body.rationale
            /\ AbsentOrEmpty(body.rationale) =>
                   v_html.rationale =
                       (IF body.rationale_for_the_score.k = "absent"
                        THEN StrText("") ELSE body.rationale_for_the_score)

\* a view whose one item is the string found under feedback_to_the_student
\* and whose rationale is the one found under rationale_for_the_score
C25_Witness ==
    /\ v_pc = "returned"
    /\ v_fn = "general"
    /\ v_html.view = "general"
    /\ v_input.ok
    /\ json_parse(v_input).feedback = NoText
    /\ json_parse(v_input).feedback_to_the_student = StrText("a")
    /\ json_parse(v_input).rationale = StrText("")
    /\ json_parse(v_input).rationale_for_the_score = StrText("s")
    /\ v_html.feedback_html = <<"a">>
    /\ v_html.rationale = StrText("s")

----------------------------------------------------------------------------
(* C26 *)

\* C26: in every successful response the score html_for_app shows agrees
\* with the numeric score of the same response: the 'Final Score' of the
\* two-stage view, when it shows one, is total_earned_points /
\* total_possible_points, and the 'Total Score' of the language /
\* literature view is total_earned_points
C26_ShownScoreIsNumericScore ==
    pc = "done" =>
        /\ (strategy = "two_stage" /\ response.html_for_app.earned_points.known) =>
               /\ response.html_for_app.earned_points.n = response.total_earned_points
               /\ response.html_for_app.total_points.n = response.total_possible_points
        /\ (/\ strategy \in {"language", "literature"}
            /\ response.html_for_app.view = "language_literature") =>
               response.html_for_app.total_score.n = response.total_earned_points

----------------------------------------------------------------------------
(* C27 *)

\* C27: a failed fact check only caps the evidence-and-commentary row: the
\* penalized total that create_language_literature_html shows is never
\* greater than the unpenalized total it shows next to it
C27_PenaltyNeverRaises ==
    (/\ v_pc = "returned"
     /\ v_fn = "language_literature"
     /\ v_html.fact_check_html.shown) =>
        v_html.fact_check_html.penalized_total_score <= v_html.fact_check_html.total_score

----------------------------------------------------------------------------
(* C28 *)

\* a value with no leading or trailing whitespace and no leading "ap "
Canonical(s) ==
    /\ Strip(s) = s
    /\ ~StartsWith(s, ApPrefix)

\* C28 as stated: normalize_course_name is idempotent and yields a
\* canonical value: for every label, normalizing the result again returns
\* the same string, and the result has no leading or trailing whitespace
\* and no leading "ap " prefix.
C28_Original ==
    n_pc = "normalized" =>
        \A r \in {n_nx, n_ny} :
            /\ normalize_course_name(r) = r
            /\ Canonical(r)

\* C28 amended: the result of normalize_course_name is in lower case and
\* has no trailing whitespace for every label; it is canonical (no leading
\* whitespace, no leading "ap ") and a fixed point of normalize_course_name
\* for every label that, stripped, does not start with "ap " in any letter
\* case, and for every such label that is not blank and has no leading
\* whitespace when one "AP " prefix is put before it; in general the
\* result is a fixed point exactly when it is canonical.
C28_CanonicalAfterOnePrefix ==
    n_pc = "normalized" =>
        /\ \A r \in {n_nx, n_ny} :
               /\ Lower(r) = r
               /\ RStrip(r) = r
               /\ normalize_course_name(r) = r <=> Canonical(r)
        /\ ~StartsWith(Lower(Strip(n_x)), ApPrefix) =>
               /\ Canonical(n_nx)
               /\ normalize_course_name(n_nx) = n_nx
        /\ (Len(n_y) > Len(n_x) /\ PrefixFree(n_x)) =>
               /\ Canonical(n_ny)
               /\ normalize_course_name(n_ny) = n_ny

\* "Language " and "Ap Language " both give "language", which normalizes
\* to itself
C28_Witness ==
    /\ n_pc = "normalized"
    /\ n_x = <<"Language", " ">>
    /\ n_y = <<"A", "p", " ", "Language", " ">>
    /\ n_nx = <<"language">>
    /\ n_ny = <<"language">>
    /\ normalize_course_name(n_ny) = n_ny

====
